---- MODULE Spec2Model ----
(***************************************************************************)
(* Model of the LxrBaker add-on (BlenderLxrBakerAddon/object_bake_operator *)
(* .py): the modal bake operator LxrObjectBakeOperator, its properties,    *)
(* the shader graph of the target material, the image table of the host    *)
(* and the host's asynchronous bake job.                                   *)
(*                                                                         *)
(* self   : the fields of the operator instance                            *)
(* bpy    : the host state the operator reads and writes                   *)
(* result : the value the last handler returned to the host; it decides    *)
(*          which handlers the host may call next                          *)
(* since_pass_start : whether the minimum wait of the design has elapsed   *)
(*          since the last engine invocation (time is not read by the code)*)
(***************************************************************************)
EXTENDS Integers, Sequences, FiniteSets, TLC

VARIABLES self, bpy, result, since_pass_start

vars == <<self, bpy, result, since_pass_start>>

\* Python's None where an object is expected, and where a BakingPass is expected
None == [none |-> TRUE]

NoPass == "None"

(***************************************************************************)
(* Pass catalog                                                            *)
(***************************************************************************)
BakingPass ==
    <<"DIFFUSE", "DIFFUSE_WITH_ALPHA", "ROUGHNESS", "METALLIC", "NORMAL", "EMIT">>

BakingPassConfiguration(p) ==
    CASE p = "DIFFUSE"            -> [type |-> "DIFFUSE",   use_alpha |-> FALSE, is_color |-> TRUE]
      [] p = "DIFFUSE_WITH_ALPHA" -> [type |-> "DIFFUSE",   use_alpha |-> TRUE,  is_color |-> TRUE]
      [] p = "ROUGHNESS"          -> [type |-> "ROUGHNESS", use_alpha |-> FALSE, is_color |-> FALSE]
      [] p = "METALLIC"           -> [type |-> "METALLIC",  use_alpha |-> FALSE, is_color |-> FALSE]
      [] p = "NORMAL"             -> [type |-> "NORMAL",    use_alpha |-> FALSE, is_color |-> FALSE]
      [] p = "EMIT"               -> [type |-> "EMIT",      use_alpha |-> FALSE, is_color |-> TRUE]

\* str.lower() on the engine pass-type names
lower(s) ==
    CASE s = "DIFFUSE"   -> "diffuse"
      [] s = "ROUGHNESS" -> "roughness"
      [] s = "METALLIC"  -> "metallic"
      [] s = "NORMAL"    -> "normal"
      [] s = "EMIT"      -> "emit"

(***************************************************************************)
(* Sequence helpers                                                        *)
(***************************************************************************)
Range(s) == {s[i] : i \in DOMAIN s}

(***************************************************************************)
(* LxrObjectBakeOperatorProperties                                         *)
(***************************************************************************)
PropNames ==
    {"image_name_prop", "is_image_save_to_file_prop", "image_path_prop",
     "image_width_prop", "image_height_prop", "uv_seam_margin_prop", "uv_map_prop",
     "is_diffuse_pass_prop", "is_alpha_pass_prop", "is_roughness_pass_prop",
     "is_metallic_pass_prop", "is_normal_pass_prop", "is_emit_pass_prop"}

\* the path of a file is a str given as the sequence of the code points of
\* its characters. The printable characters of ASCII from " " (32) to "_" (95) and
\* from "a" (97) to "~" (126), in the order of their code points
AsciiFrom32 == " !\"#$%&'()*+,-./0123456789:;<=>?@ABCDEFGHIJKLMNOPQRSTUVWXYZ[\\]^_"
AsciiFrom97 == "abcdefghijklmnopqrstuvwxyz{|}~"

\* ord(c) of a printable character of ASCII
ord(c) ==
    IF \E i \in 1..Len(AsciiFrom32) : SubSeq(AsciiFrom32, i, i) = c
    THEN 31 + (CHOOSE i \in 1..Len(AsciiFrom32) : SubSeq(AsciiFrom32, i, i) = c)
    ELSE 96 + (CHOOSE i \in 1..Len(AsciiFrom97) : SubSeq(AsciiFrom97, i, i) = c)

\* the code points of a string of printable characters of ASCII
CodePoints(string) == [i \in 1..Len(string) |-> ord(SubSeq(string, i, i))]

\* LxrObjectBakeOperatorProperties(blender_object).properties_to_dict()
DefaultProperties(blender_object, bake_margin) ==
    [image_name_prop            |-> IF blender_object = None THEN "" ELSE blender_object.name,
     is_image_save_to_file_prop |-> FALSE,
     image_path_prop            |-> CodePoints("//"),
     image_width_prop           |-> 1024,
     image_height_prop          |-> 1024,
     uv_seam_margin_prop        |-> bake_margin,
     uv_map_prop                |-> "NONE",
     is_diffuse_pass_prop       |-> TRUE,
     is_alpha_pass_prop         |-> FALSE,
     is_roughness_pass_prop     |-> TRUE,
     is_metallic_pass_prop      |-> FALSE,
     is_normal_pass_prop        |-> TRUE,
     is_emit_pass_prop          |-> FALSE]

get_baking_passes_reversed(p) ==
    LET passes == << <<p.is_emit_pass_prop, "EMIT">>,
                     <<p.is_normal_pass_prop, "NORMAL">>,
                     <<p.is_metallic_pass_prop, "METALLIC">>,
                     <<p.is_roughness_pass_prop, "ROUGHNESS">>,
                     <<p.is_diffuse_pass_prop /\ p.is_alpha_pass_prop, "DIFFUSE_WITH_ALPHA">>,
                     <<p.is_diffuse_pass_prop /\ ~p.is_alpha_pass_prop, "DIFFUSE">> >>
        chosen == SelectSeq(passes, LAMBDA e : e[1] = TRUE)
    IN  [i \in 1..Len(chosen) |-> chosen[i][2]]

\* the selection in which the alpha toggle does not exclude the plain diffuse pass
get_baking_passes_with_both_diffuse(p) ==
    LET passes == << <<p.is_diffuse_pass_prop, "DIFFUSE">>,
                     <<p.is_diffuse_pass_prop /\ p.is_alpha_pass_prop, "DIFFUSE_WITH_ALPHA">>,
                     <<p.is_roughness_pass_prop, "ROUGHNESS">>,
                     <<p.is_metallic_pass_prop, "METALLIC">>,
                     <<p.is_normal_pass_prop, "NORMAL">>,
                     <<p.is_emit_pass_prop, "EMIT">> >>
        chosen == SelectSeq(passes, LAMBDA e : e[1] = TRUE)
    IN  [i \in 1..Len(chosen) |-> chosen[i][2]]

get_baking_passes(p) ==
    LET passes == << <<p.is_diffuse_pass_prop /\ ~p.is_alpha_pass_prop, "DIFFUSE">>,
                     <<p.is_diffuse_pass_prop /\ p.is_alpha_pass_prop, "DIFFUSE_WITH_ALPHA">>,
                     <<p.is_roughness_pass_prop, "ROUGHNESS">>,
                     <<p.is_metallic_pass_prop, "METALLIC">>,
                     <<p.is_normal_pass_prop, "NORMAL">>,
                     <<p.is_emit_pass_prop, "EMIT">> >>
        chosen == SelectSeq(passes, LAMBDA e : e[1] = TRUE)
    IN  [i \in 1..Len(chosen) |-> chosen[i][2]]

get_image_name(p, baking_pass) ==
    p.image_name_prop \o "-" \o lower(BakingPassConfiguration(baking_pass).type)

\* the error a handler or a method ends with in place of a value
AttributeError == [error |-> "AttributeError"]

\* line 259 for a selected mesh whose first slot has no material: the
\* attribute node_tree is read from None
is_valid_target_obj_raises(obj) ==
    /\ obj # None
    /\ obj.type = "MESH"
    /\ obj.select
    /\ Len(obj.material_slots) > 0
    /\ obj.material_slots[1].material = None

is_valid_target_obj(obj) ==
    IF is_valid_target_obj_raises(obj) THEN AttributeError
    ELSE /\ obj # None
         /\ obj.type = "MESH"
         /\ obj.select
         /\ Len(obj.material_slots) > 0
         /\ obj.material_slots[1].material.node_tree # None

\* the enum values of uv_map_prop (first components of the item tuples)
get_target_object_uv_maps(obj) ==
    IF is_valid_target_obj_raises(obj) THEN AttributeError
    ELSE IF is_valid_target_obj(obj) THEN obj.uv_layers ELSE <<"NONE">>

\* the dictionary that leaves out the UV map
properties_to_dict_without_uv_map(p) == [k \in PropNames \ {"uv_map_prop"} |-> p[k]]

properties_to_dict(p) == [k \in PropNames |-> p[k]]

\* the copy that takes the UV map of the dictionary whatever the enum values are
copy_properties_from_dict_unchecked(p, dictionary, obj) ==
    [k \in DOMAIN p |->
        IF k \in DOMAIN dictionary /\ k \in PropNames THEN dictionary[k] ELSE p[k]]

\* dictionary: a function from a set of keys to values; absent keys keep the
\* old value, uv_map_prop is taken only when it is a valid enum value
\* lines 144-155: the properties assigned before uv_map_prop is reached
copy_properties_before_uv_map(p, dictionary) ==
    [k \in DOMAIN p |->
        IF k \in DOMAIN dictionary
              /\ k \in {"image_name_prop", "is_image_save_to_file_prop", "image_path_prop",
                        "image_width_prop", "image_height_prop", "uv_seam_margin_prop"}
        THEN dictionary[k] ELSE p[k]]

\* with a target whose slot has no material the enum values cannot be read: the
\* error leaves the method after the six properties before uv_map_prop are assigned
copy_properties_from_dict(p, dictionary, obj) ==
    IF "uv_map_prop" \in DOMAIN dictionary /\ is_valid_target_obj_raises(obj)
    THEN AttributeError ELSE
    [k \in DOMAIN p |->
        IF k \in DOMAIN dictionary /\ k \in PropNames
        THEN IF k = "uv_map_prop"
             THEN IF dictionary[k] \in Range(get_target_object_uv_maps(obj))
                  THEN dictionary[k] ELSE p[k]
             ELSE dictionary[k]
        ELSE p[k]]

\* every property of the other configuration taken over, by way of its dictionary
copy_properties_from(p, other, obj) ==
    copy_properties_from_dict(p, properties_to_dict(other), obj)

(***************************************************************************)
(* Host state: images (bpy.data.images), the shader graph of a material,   *)
(* the asynchronous bake job                                               *)
(***************************************************************************)
\* bpy.data.images.get(name): the index of the image of that name, 0 for None
images_get(images, name) ==
    IF \E i \in DOMAIN images : images[i].name = name
    THEN CHOOSE i \in DOMAIN images : images[i].name = name
    ELSE 0

\* the host keeps image names unique by appending a numeric suffix
unique_name(images, name) ==
    IF images_get(images, name) = 0 THEN name ELSE name \o ".001"

\* bpy.data.images.new(name, width, height, alpha): a generated image with a buffer
images_new(images, name, width, height, alpha) ==
    Append(images,
           [name       |-> unique_name(images, name),
            has_data   |-> TRUE,
            alpha_mode |-> "STRAIGHT",
            type       |-> "IMAGE",
            size       |-> <<width, height>>,
            is_data    |-> FALSE,
            has_alpha  |-> alpha,
            packed     |-> FALSE,
            filepath   |-> <<>>])

is_image_packed(img) == img.packed

pack_image(img) == [img EXCEPT !.packed = TRUE, !.filepath = <<>>]

\* bpy.app.is_job_running("OBJECT_BAKE"): some bake job is flagged as running
is_job_running(b) == \E i \in DOMAIN b.jobs : b.jobs[i].status = "running"

(***************************************************************************)
(* LxrObjectBakeOperator: helpers on the pair W = [self, bpy]              *)
(***************************************************************************)
\* statements run one after another: F on the value x has when it is reached
Then(x, F(_)) == CHOOSE y \in {F(v) : v \in {x}} : TRUE

report(W, msg) == [W EXCEPT !.self.reports = @ \cup {msg}]

get_target_object(W) ==
    IF W.bpy.object # None /\ W.bpy.object.name = W.self.props.target_object_prop
    THEN W.bpy.object ELSE None

get_target_material(W) == get_target_object(W).material_slots[1].material

node_tree_of(W) == get_target_material(W).node_tree

with_node_tree(W, nt) == [W EXCEPT !.bpy.object.material_slots[1].material.node_tree = nt]

\* the first ShaderNodeBsdfPrincipled of the tree (its index), 0 for None
get_principled_bsdf_node(node_tree) ==
    IF Len(node_tree.bsdf_nodes) = 0 THEN 0 ELSE 1

bsdf_warning(W, node_tree) ==
    IF Len(node_tree.bsdf_nodes) > 1
    THEN report(W, "Baked metallic pass might be wrong. Found more than one Principled BSDF Node.")
    ELSE W

\* node_tree.links.new(socket, input) for each socket of a list, on an input
\* that takes one link: a new link replaces the link the input had
links_new(from_sockets) ==
    IF from_sockets = <<>> THEN <<>> ELSE <<from_sockets[Len(from_sockets)]>>

\* the swap that overwrites the Metallic value before it is read for Roughness
switch_without_temporary(bsdf_node) ==
    [bsdf_node EXCEPT
        !.Metallic  = [default_value |-> bsdf_node.Roughness.default_value,
                       links         |-> links_new(bsdf_node.Roughness.links)],
        !.Roughness = [default_value |-> bsdf_node.Roughness.default_value,
                       links         |-> links_new(bsdf_node.Metallic.links)]]

\* the swap of the values that leaves the links where they are
switch_values_only(bsdf_node) ==
    [bsdf_node EXCEPT
        !.Metallic.default_value  = bsdf_node.Roughness.default_value,
        !.Roughness.default_value = bsdf_node.Metallic.default_value]

switch_metallic_and_roughness(bsdf_node) ==
    LET metallic  == bsdf_node.Metallic
        roughness == bsdf_node.Roughness
        metallic_value == metallic.default_value
        metallic_linked_sockets  == metallic.links
        roughness_linked_sockets == roughness.links
    IN  [bsdf_node EXCEPT
            !.Metallic  = [default_value |-> roughness.default_value,
                           links         |-> links_new(roughness_linked_sockets)],
            !.Roughness = [default_value |-> metallic_value,
                           links         |-> links_new(metallic_linked_sockets)]]

\* the letters and digits of ASCII
AlphaNumeric ==
    {"a", "b", "c", "d", "e", "f", "g", "h", "i", "j", "k", "l", "m",
     "n", "o", "p", "q", "r", "s", "t", "u", "v", "w", "x", "y", "z",
     "A", "B", "C", "D", "E", "F", "G", "H", "I", "J", "K", "L", "M",
     "N", "O", "P", "Q", "R", "S", "T", "U", "V", "W", "X", "Y", "Z",
     "0", "1", "2", "3", "4", "5", "6", "7", "8", "9"}

\* the code points \w of a regular expression matches in a str pattern, as
\* ranges <<first, last>>: "_" and every letter and digit of Unicode (str.isalnum
\* of Unicode 14.0, the characters with isalpha, isdecimal, isdigit or isnumeric)
WordCharacterRanges ==
    {<<48, 57>>, <<65, 90>>, <<95, 95>>, <<97, 122>>, <<170, 170>>, <<178, 179>>,
     <<181, 181>>, <<185, 186>>, <<188, 190>>, <<192, 214>>, <<216, 246>>, <<248, 705>>,
     <<710, 721>>, <<736, 740>>, <<748, 748>>, <<750, 750>>, <<880, 884>>, <<886, 887>>,
     <<890, 893>>, <<895, 895>>, <<902, 902>>, <<904, 906>>, <<908, 908>>, <<910, 929>>,
     <<931, 1013>>, <<1015, 1153>>, <<1162, 1327>>, <<1329, 1366>>, <<1369, 1369>>, <<1376, 1416>>,
     <<1488, 1514>>, <<1519, 1522>>, <<1568, 1610>>, <<1632, 1641>>, <<1646, 1647>>, <<1649, 1747>>,
     <<1749, 1749>>, <<1765, 1766>>, <<1774, 1788>>, <<1791, 1791>>, <<1808, 1808>>, <<1810, 1839>>,
     <<1869, 1957>>, <<1969, 1969>>, <<1984, 2026>>, <<2036, 2037>>, <<2042, 2042>>, <<2048, 2069>>,
     <<2074, 2074>>, <<2084, 2084>>, <<2088, 2088>>, <<2112, 2136>>, <<2144, 2154>>, <<2160, 2183>>,
     <<2185, 2190>>, <<2208, 2249>>, <<2308, 2361>>, <<2365, 2365>>, <<2384, 2384>>, <<2392, 2401>>,
     <<2406, 2415>>, <<2417, 2432>>, <<2437, 2444>>, <<2447, 2448>>, <<2451, 2472>>, <<2474, 2480>>,
     <<2482, 2482>>, <<2486, 2489>>, <<2493, 2493>>, <<2510, 2510>>, <<2524, 2525>>, <<2527, 2529>>,
     <<2534, 2545>>, <<2548, 2553>>, <<2556, 2556>>, <<2565, 2570>>, <<2575, 2576>>, <<2579, 2600>>,
     <<2602, 2608>>, <<2610, 2611>>, <<2613, 2614>>, <<2616, 2617>>, <<2649, 2652>>, <<2654, 2654>>,
     <<2662, 2671>>, <<2674, 2676>>, <<2693, 2701>>, <<2703, 2705>>, <<2707, 2728>>, <<2730, 2736>>,
     <<2738, 2739>>, <<2741, 2745>>, <<2749, 2749>>, <<2768, 2768>>, <<2784, 2785>>, <<2790, 2799>>,
     <<2809, 2809>>, <<2821, 2828>>, <<2831, 2832>>, <<2835, 2856>>, <<2858, 2864>>, <<2866, 2867>>,
     <<2869, 2873>>, <<2877, 2877>>, <<2908, 2909>>, <<2911, 2913>>, <<2918, 2927>>, <<2929, 2935>>,
     <<2947, 2947>>, <<2949, 2954>>, <<2958, 2960>>, <<2962, 2965>>, <<2969, 2970>>, <<2972, 2972>>,
     <<2974, 2975>>, <<2979, 2980>>, <<2984, 2986>>, <<2990, 3001>>, <<3024, 3024>>, <<3046, 3058>>,
     <<3077, 3084>>, <<3086, 3088>>, <<3090, 3112>>, <<3114, 3129>>, <<3133, 3133>>, <<3160, 3162>>,
     <<3165, 3165>>, <<3168, 3169>>, <<3174, 3183>>, <<3192, 3198>>, <<3200, 3200>>, <<3205, 3212>>,
     <<3214, 3216>>, <<3218, 3240>>, <<3242, 3251>>, <<3253, 3257>>, <<3261, 3261>>, <<3293, 3294>>,
     <<3296, 3297>>, <<3302, 3311>>, <<3313, 3314>>, <<3332, 3340>>, <<3342, 3344>>, <<3346, 3386>>,
     <<3389, 3389>>, <<3406, 3406>>, <<3412, 3414>>, <<3416, 3425>>, <<3430, 3448>>, <<3450, 3455>>,
     <<3461, 3478>>, <<3482, 3505>>, <<3507, 3515>>, <<3517, 3517>>, <<3520, 3526>>, <<3558, 3567>>,
     <<3585, 3632>>, <<3634, 3635>>, <<3648, 3654>>, <<3664, 3673>>, <<3713, 3714>>, <<3716, 3716>>,
     <<3718, 3722>>, <<3724, 3747>>, <<3749, 3749>>, <<3751, 3760>>, <<3762, 3763>>, <<3773, 3773>>,
     <<3776, 3780>>, <<3782, 3782>>, <<3792, 3801>>, <<3804, 3807>>, <<3840, 3840>>, <<3872, 3891>>,
     <<3904, 3911>>, <<3913, 3948>>, <<3976, 3980>>, <<4096, 4138>>, <<4159, 4169>>, <<4176, 4181>>,
     <<4186, 4189>>, <<4193, 4193>>, <<4197, 4198>>, <<4206, 4208>>, <<4213, 4225>>, <<4238, 4238>>,
     <<4240, 4249>>, <<4256, 4293>>, <<4295, 4295>>, <<4301, 4301>>, <<4304, 4346>>, <<4348, 4680>>,
     <<4682, 4685>>, <<4688, 4694>>, <<4696, 4696>>, <<4698, 4701>>, <<4704, 4744>>, <<4746, 4749>>,
     <<4752, 4784>>, <<4786, 4789>>, <<4792, 4798>>, <<4800, 4800>>, <<4802, 4805>>, <<4808, 4822>>,
     <<4824, 4880>>, <<4882, 4885>>, <<4888, 4954>>, <<4969, 4988>>, <<4992, 5007>>, <<5024, 5109>>,
     <<5112, 5117>>, <<5121, 5740>>, <<5743, 5759>>, <<5761, 5786>>, <<5792, 5866>>, <<5870, 5880>>,
     <<5888, 5905>>, <<5919, 5937>>, <<5952, 5969>>, <<5984, 5996>>, <<5998, 6000>>, <<6016, 6067>>,
     <<6103, 6103>>, <<6108, 6108>>, <<6112, 6121>>, <<6128, 6137>>, <<6160, 6169>>, <<6176, 6264>>,
     <<6272, 6276>>, <<6279, 6312>>, <<6314, 6314>>, <<6320, 6389>>, <<6400, 6430>>, <<6470, 6509>>,
     <<6512, 6516>>, <<6528, 6571>>, <<6576, 6601>>, <<6608, 6618>>, <<6656, 6678>>, <<6688, 6740>>,
     <<6784, 6793>>, <<6800, 6809>>, <<6823, 6823>>, <<6917, 6963>>, <<6981, 6988>>, <<6992, 7001>>,
     <<7043, 7072>>, <<7086, 7141>>, <<7168, 7203>>, <<7232, 7241>>, <<7245, 7293>>, <<7296, 7304>>,
     <<7312, 7354>>, <<7357, 7359>>, <<7401, 7404>>, <<7406, 7411>>, <<7413, 7414>>, <<7418, 7418>>,
     <<7424, 7615>>, <<7680, 7957>>, <<7960, 7965>>, <<7968, 8005>>, <<8008, 8013>>, <<8016, 8023>>,
     <<8025, 8025>>, <<8027, 8027>>, <<8029, 8029>>, <<8031, 8061>>, <<8064, 8116>>, <<8118, 8124>>,
     <<8126, 8126>>, <<8130, 8132>>, <<8134, 8140>>, <<8144, 8147>>, <<8150, 8155>>, <<8160, 8172>>,
     <<8178, 8180>>, <<8182, 8188>>, <<8304, 8305>>, <<8308, 8313>>, <<8319, 8329>>, <<8336, 8348>>,
     <<8450, 8450>>, <<8455, 8455>>, <<8458, 8467>>, <<8469, 8469>>, <<8473, 8477>>, <<8484, 8484>>,
     <<8486, 8486>>, <<8488, 8488>>, <<8490, 8493>>, <<8495, 8505>>, <<8508, 8511>>, <<8517, 8521>>,
     <<8526, 8526>>, <<8528, 8585>>, <<9312, 9371>>, <<9450, 9471>>, <<10102, 10131>>, <<11264, 11492>>,
     <<11499, 11502>>, <<11506, 11507>>, <<11517, 11517>>, <<11520, 11557>>, <<11559, 11559>>, <<11565, 11565>>,
     <<11568, 11623>>, <<11631, 11631>>, <<11648, 11670>>, <<11680, 11686>>, <<11688, 11694>>, <<11696, 11702>>,
     <<11704, 11710>>, <<11712, 11718>>, <<11720, 11726>>, <<11728, 11734>>, <<11736, 11742>>, <<11823, 11823>>,
     <<12293, 12295>>, <<12321, 12329>>, <<12337, 12341>>, <<12344, 12348>>, <<12353, 12438>>, <<12445, 12447>>,
     <<12449, 12538>>, <<12540, 12543>>, <<12549, 12591>>, <<12593, 12686>>, <<12690, 12693>>, <<12704, 12735>>,
     <<12784, 12799>>, <<12832, 12841>>, <<12872, 12879>>, <<12881, 12895>>, <<12928, 12937>>, <<12977, 12991>>,
     <<13312, 19903>>, <<19968, 42124>>, <<42192, 42237>>, <<42240, 42508>>, <<42512, 42539>>, <<42560, 42606>>,
     <<42623, 42653>>, <<42656, 42735>>, <<42775, 42783>>, <<42786, 42888>>, <<42891, 42954>>, <<42960, 42961>>,
     <<42963, 42963>>, <<42965, 42969>>, <<42994, 43009>>, <<43011, 43013>>, <<43015, 43018>>, <<43020, 43042>>,
     <<43056, 43061>>, <<43072, 43123>>, <<43138, 43187>>, <<43216, 43225>>, <<43250, 43255>>, <<43259, 43259>>,
     <<43261, 43262>>, <<43264, 43301>>, <<43312, 43334>>, <<43360, 43388>>, <<43396, 43442>>, <<43471, 43481>>,
     <<43488, 43492>>, <<43494, 43518>>, <<43520, 43560>>, <<43584, 43586>>, <<43588, 43595>>, <<43600, 43609>>,
     <<43616, 43638>>, <<43642, 43642>>, <<43646, 43695>>, <<43697, 43697>>, <<43701, 43702>>, <<43705, 43709>>,
     <<43712, 43712>>, <<43714, 43714>>, <<43739, 43741>>, <<43744, 43754>>, <<43762, 43764>>, <<43777, 43782>>,
     <<43785, 43790>>, <<43793, 43798>>, <<43808, 43814>>, <<43816, 43822>>, <<43824, 43866>>, <<43868, 43881>>,
     <<43888, 44002>>, <<44016, 44025>>, <<44032, 55203>>, <<55216, 55238>>, <<55243, 55291>>, <<63744, 64109>>,
     <<64112, 64217>>, <<64256, 64262>>, <<64275, 64279>>, <<64285, 64285>>, <<64287, 64296>>, <<64298, 64310>>,
     <<64312, 64316>>, <<64318, 64318>>, <<64320, 64321>>, <<64323, 64324>>, <<64326, 64433>>, <<64467, 64829>>,
     <<64848, 64911>>, <<64914, 64967>>, <<65008, 65019>>, <<65136, 65140>>, <<65142, 65276>>, <<65296, 65305>>,
     <<65313, 65338>>, <<65345, 65370>>, <<65382, 65470>>, <<65474, 65479>>, <<65482, 65487>>, <<65490, 65495>>,
     <<65498, 65500>>, <<65536, 65547>>, <<65549, 65574>>, <<65576, 65594>>, <<65596, 65597>>, <<65599, 65613>>,
     <<65616, 65629>>, <<65664, 65786>>, <<65799, 65843>>, <<65856, 65912>>, <<65930, 65931>>, <<66176, 66204>>,
     <<66208, 66256>>, <<66273, 66299>>, <<66304, 66339>>, <<66349, 66378>>, <<66384, 66421>>, <<66432, 66461>>,
     <<66464, 66499>>, <<66504, 66511>>, <<66513, 66517>>, <<66560, 66717>>, <<66720, 66729>>, <<66736, 66771>>,
     <<66776, 66811>>, <<66816, 66855>>, <<66864, 66915>>, <<66928, 66938>>, <<66940, 66954>>, <<66956, 66962>>,
     <<66964, 66965>>, <<66967, 66977>>, <<66979, 66993>>, <<66995, 67001>>, <<67003, 67004>>, <<67072, 67382>>,
     <<67392, 67413>>, <<67424, 67431>>, <<67456, 67461>>, <<67463, 67504>>, <<67506, 67514>>, <<67584, 67589>>,
     <<67592, 67592>>, <<67594, 67637>>, <<67639, 67640>>, <<67644, 67644>>, <<67647, 67669>>, <<67672, 67702>>,
     <<67705, 67742>>, <<67751, 67759>>, <<67808, 67826>>, <<67828, 67829>>, <<67835, 67867>>, <<67872, 67897>>,
     <<67968, 68023>>, <<68028, 68047>>, <<68050, 68096>>, <<68112, 68115>>, <<68117, 68119>>, <<68121, 68149>>,
     <<68160, 68168>>, <<68192, 68222>>, <<68224, 68255>>, <<68288, 68295>>, <<68297, 68324>>, <<68331, 68335>>,
     <<68352, 68405>>, <<68416, 68437>>, <<68440, 68466>>, <<68472, 68497>>, <<68521, 68527>>, <<68608, 68680>>,
     <<68736, 68786>>, <<68800, 68850>>, <<68858, 68899>>, <<68912, 68921>>, <<69216, 69246>>, <<69248, 69289>>,
     <<69296, 69297>>, <<69376, 69415>>, <<69424, 69445>>, <<69457, 69460>>, <<69488, 69505>>, <<69552, 69579>>,
     <<69600, 69622>>, <<69635, 69687>>, <<69714, 69743>>, <<69745, 69746>>, <<69749, 69749>>, <<69763, 69807>>,
     <<69840, 69864>>, <<69872, 69881>>, <<69891, 69926>>, <<69942, 69951>>, <<69956, 69956>>, <<69959, 69959>>,
     <<69968, 70002>>, <<70006, 70006>>, <<70019, 70066>>, <<70081, 70084>>, <<70096, 70106>>, <<70108, 70108>>,
     <<70113, 70132>>, <<70144, 70161>>, <<70163, 70187>>, <<70272, 70278>>, <<70280, 70280>>, <<70282, 70285>>,
     <<70287, 70301>>, <<70303, 70312>>, <<70320, 70366>>, <<70384, 70393>>, <<70405, 70412>>, <<70415, 70416>>,
     <<70419, 70440>>, <<70442, 70448>>, <<70450, 70451>>, <<70453, 70457>>, <<70461, 70461>>, <<70480, 70480>>,
     <<70493, 70497>>, <<70656, 70708>>, <<70727, 70730>>, <<70736, 70745>>, <<70751, 70753>>, <<70784, 70831>>,
     <<70852, 70853>>, <<70855, 70855>>, <<70864, 70873>>, <<71040, 71086>>, <<71128, 71131>>, <<71168, 71215>>,
     <<71236, 71236>>, <<71248, 71257>>, <<71296, 71338>>, <<71352, 71352>>, <<71360, 71369>>, <<71424, 71450>>,
     <<71472, 71483>>, <<71488, 71494>>, <<71680, 71723>>, <<71840, 71922>>, <<71935, 71942>>, <<71945, 71945>>,
     <<71948, 71955>>, <<71957, 71958>>, <<71960, 71983>>, <<71999, 71999>>, <<72001, 72001>>, <<72016, 72025>>,
     <<72096, 72103>>, <<72106, 72144>>, <<72161, 72161>>, <<72163, 72163>>, <<72192, 72192>>, <<72203, 72242>>,
     <<72250, 72250>>, <<72272, 72272>>, <<72284, 72329>>, <<72349, 72349>>, <<72368, 72440>>, <<72704, 72712>>,
     <<72714, 72750>>, <<72768, 72768>>, <<72784, 72812>>, <<72818, 72847>>, <<72960, 72966>>, <<72968, 72969>>,
     <<72971, 73008>>, <<73030, 73030>>, <<73040, 73049>>, <<73056, 73061>>, <<73063, 73064>>, <<73066, 73097>>,
     <<73112, 73112>>, <<73120, 73129>>, <<73440, 73458>>, <<73648, 73648>>, <<73664, 73684>>, <<73728, 74649>>,
     <<74752, 74862>>, <<74880, 75075>>, <<77712, 77808>>, <<77824, 78894>>, <<82944, 83526>>, <<92160, 92728>>,
     <<92736, 92766>>, <<92768, 92777>>, <<92784, 92862>>, <<92864, 92873>>, <<92880, 92909>>, <<92928, 92975>>,
     <<92992, 92995>>, <<93008, 93017>>, <<93019, 93025>>, <<93027, 93047>>, <<93053, 93071>>, <<93760, 93846>>,
     <<93952, 94026>>, <<94032, 94032>>, <<94099, 94111>>, <<94176, 94177>>, <<94179, 94179>>, <<94208, 100343>>,
     <<100352, 101589>>, <<101632, 101640>>, <<110576, 110579>>, <<110581, 110587>>, <<110589, 110590>>, <<110592, 110882>>,
     <<110928, 110930>>, <<110948, 110951>>, <<110960, 111355>>, <<113664, 113770>>, <<113776, 113788>>, <<113792, 113800>>,
     <<113808, 113817>>, <<119520, 119539>>, <<119648, 119672>>, <<119808, 119892>>, <<119894, 119964>>, <<119966, 119967>>,
     <<119970, 119970>>, <<119973, 119974>>, <<119977, 119980>>, <<119982, 119993>>, <<119995, 119995>>, <<119997, 120003>>,
     <<120005, 120069>>, <<120071, 120074>>, <<120077, 120084>>, <<120086, 120092>>, <<120094, 120121>>, <<120123, 120126>>,
     <<120128, 120132>>, <<120134, 120134>>, <<120138, 120144>>, <<120146, 120485>>, <<120488, 120512>>, <<120514, 120538>>,
     <<120540, 120570>>, <<120572, 120596>>, <<120598, 120628>>, <<120630, 120654>>, <<120656, 120686>>, <<120688, 120712>>,
     <<120714, 120744>>, <<120746, 120770>>, <<120772, 120779>>, <<120782, 120831>>, <<122624, 122654>>, <<123136, 123180>>,
     <<123191, 123197>>, <<123200, 123209>>, <<123214, 123214>>, <<123536, 123565>>, <<123584, 123627>>, <<123632, 123641>>,
     <<124896, 124902>>, <<124904, 124907>>, <<124909, 124910>>, <<124912, 124926>>, <<124928, 125124>>, <<125127, 125135>>,
     <<125184, 125251>>, <<125259, 125259>>, <<125264, 125273>>, <<126065, 126123>>, <<126125, 126127>>, <<126129, 126132>>,
     <<126209, 126253>>, <<126255, 126269>>, <<126464, 126467>>, <<126469, 126495>>, <<126497, 126498>>, <<126500, 126500>>,
     <<126503, 126503>>, <<126505, 126514>>, <<126516, 126519>>, <<126521, 126521>>, <<126523, 126523>>, <<126530, 126530>>,
     <<126535, 126535>>, <<126537, 126537>>, <<126539, 126539>>, <<126541, 126543>>, <<126545, 126546>>, <<126548, 126548>>,
     <<126551, 126551>>, <<126553, 126553>>, <<126555, 126555>>, <<126557, 126557>>, <<126559, 126559>>, <<126561, 126562>>,
     <<126564, 126564>>, <<126567, 126570>>, <<126572, 126578>>, <<126580, 126583>>, <<126585, 126588>>, <<126590, 126590>>,
     <<126592, 126601>>, <<126603, 126619>>, <<126625, 126627>>, <<126629, 126633>>, <<126635, 126651>>, <<127232, 127244>>,
     <<130032, 130041>>, <<131072, 173791>>, <<173824, 177976>>, <<177984, 178205>>, <<178208, 183969>>, <<183984, 191456>>,
     <<194560, 195101>>, <<196608, 201546>>}

\* \w matches the character of code point c
WordCharacters(c) == \E r \in WordCharacterRanges : r[1] <= c /\ c <= r[2]

\* the class [^\w_.-/] leaves the character of code point c alone: a word
\* character, "_", or a character of the range from "." to "/", which holds
\* these two characters only
LegalPathCharacters(c) ==
    WordCharacters(c) \/ c = ord("_") \/ (ord(".") <= c /\ c <= ord("/"))

\* re.sub(r"[^\w_.-/]", "_", string): every other character becomes "_"
re_sub(string) ==
    [i \in 1..Len(string) |->
        IF LegalPathCharacters(string[i]) THEN string[i] ELSE ord("_")]

\* bpy.path.clean_name(name): every character besides A-Z, a-z and 0-9
\* becomes "_"
RECURSIVE clean_name(_)
clean_name(name) ==
    IF name = "" THEN ""
    ELSE (IF SubSeq(name, 1, 1) \in AlphaNumeric
          THEN SubSeq(name, 1, 1) ELSE "_")
         \o clean_name(SubSeq(name, 2, Len(name)))

\* string.endswith(suffix) for a suffix of one character
endswith(string, suffix) ==
    Len(string) > 0 /\ SubSeq(string, Len(string), Len(string)) = suffix

\* the path of the file, a str as the sequence of its code points
get_image_path(p, img_name) ==
    LET img_path == re_sub(p.image_path_prop)
        name     == clean_name(img_name)
    IN  (IF endswith(img_path, CodePoints("/"))
         THEN img_path ELSE img_path \o CodePoints("/"))
        \o CodePoints(name) \o CodePoints(".png")

\* img.save(filepath=...) of a file the host cannot write raises RuntimeError;
\* no handler of the operator catches it, so it leaves every caller up to modal
raise(W) == [W EXCEPT !.bpy.raised = TRUE]

\* img.reload() of line 452: the host drops the buffers of the image, which it
\* reads again from the file of its filepath when the image is next needed;
\* until then the image has no data
reload(img) == [img EXCEPT !.has_data = FALSE]

\* save_result_image: W with the image saved to file or packed, and the save recorded
save_result_image(W, img) ==
    LET image == W.bpy.images[img] IN
    IF ~image.has_data
    THEN report(W, "Cannot save image because it has not data.")
    ELSE IF W.self.props.is_image_save_to_file_prop
         THEN IF W.bpy.io_error THEN raise(W) ELSE
              [W EXCEPT !.bpy.images[img] =
                            reload([image EXCEPT
                                !.packed = IF is_image_packed(image) THEN FALSE ELSE @,
                                !.filepath = get_image_path(W.self.props, image.name)]),
                        !.bpy.persisted = Append(@, image.name)]
         ELSE [W EXCEPT !.bpy.images[img] = pack_image(image),
                        !.bpy.persisted = Append(@, image.name)]

(***************************************************************************)
(* LxrObjectBakeOperator: the sequencer.  A handler is a chain of steps,   *)
(* each an operator from W to W, composed in the order of the code.        *)
(***************************************************************************)
\* the node removed from the tree and still recorded in the operator
remove_image_node_still_tracked(W, node) ==
    IF W.bpy.raised THEN W ELSE
    with_node_tree(W, [node_tree_of(W) EXCEPT !.nodes = @ \ {node}])

\* nodes.remove(self._current_image_node); self._current_image_node = None
remove_image_node(W, node) ==
    IF W.bpy.raised THEN W ELSE
    [with_node_tree(W, [node_tree_of(W) EXCEPT !.nodes = @ \ {node}])
        EXCEPT !.self._current_image_node = None]

\* the temporary node removed without its image being saved
cleanup_image_node_without_save(W) ==
    IF W.self._current_image_node # None
    THEN remove_image_node(W, W.self._current_image_node)
    ELSE W

\* lines 332-335: save the image of the temporary node and remove the node
cleanup_image_node(W) ==
    IF W.self._current_image_node # None
    THEN remove_image_node(save_result_image(W, W.self._current_image_node.image),
                           W.self._current_image_node)
    ELSE W

\* lines 339-340 and 387-390: the swap on the principal node of the tree, if any
switch_in_tree(W) ==
    IF get_principled_bsdf_node(node_tree_of(W)) # 0
    THEN with_node_tree(W,
            [node_tree_of(W) EXCEPT !.bsdf_nodes[get_principled_bsdf_node(node_tree_of(W))] =
                switch_metallic_and_roughness(@)])
    ELSE W

\* the swap undone after every pass, whatever the running pass is
cleanup_metallic_after_every_pass(W) ==
    IF W.bpy.raised THEN W ELSE switch_in_tree(bsdf_warning(W, node_tree_of(W)))

\* lines 336-340: undo the swap of a METALLIC pass
cleanup_metallic(W) ==
    IF W.bpy.raised THEN W ELSE
    IF W.self._running_pass = "METALLIC"
    THEN switch_in_tree(bsdf_warning(W, node_tree_of(W)))
    ELSE W

\* the running pass left recorded
clear_running_pass_skipped(W) == W

\* line 341
clear_running_pass(W) ==
    IF W.bpy.raised THEN W ELSE [W EXCEPT !.self._running_pass = NoPass]

\* cleanup that forgets to undo the metallic/roughness swap
cleanup_without_unswap(W) == clear_running_pass(cleanup_image_node(W))

cleanup_after_bake(W) ==
    Then(Then(Then(W, cleanup_image_node), cleanup_metallic), clear_running_pass)

\* line 350: an existing image that cannot be reused
image_is_unusable(img, pass_config) ==
    \/ ~img.has_data
    \/ (img.alpha_mode = "NONE" /\ pass_config.use_alpha)
    \/ img.type # "IMAGE"

\* lines 349-359: an unusable image of the name is renamed, so that none is found
rename_unusable(W, img_name, pass_config) ==
    IF /\ images_get(W.bpy.images, img_name) # 0
       /\ image_is_unusable(W.bpy.images[images_get(W.bpy.images, img_name)], pass_config)
    THEN report([W EXCEPT !.bpy.images[images_get(W.bpy.images, img_name)].name =
                              unique_name(W.bpy.images, @ \o "_old")],
                "Image has invalid data. Renaming and creating a new image")
    ELSE W

\* the resize that packs the image and leaves its size as it is
scale_image_without_scaling(img, width, height) ==
    IF img.size # <<width, height>> THEN pack_image(pack_image(img)) ELSE img

\* lines 367-373: img.scale between two pack_image
scale_image(img, width, height) ==
    IF img.size # <<width, height>>
    THEN pack_image([pack_image(img) EXCEPT !.size = <<width, height>>])
    ELSE img

\* lines 361-373: a new image, or the existing one scaled to the configured size
create_or_scale(W, img_name, pass_config) ==
    IF images_get(W.bpy.images, img_name) = 0
    THEN [W EXCEPT !.bpy.images =
             images_new(@, img_name, W.self.props.image_width_prop,
                        W.self.props.image_height_prop, pass_config.use_alpha)]
    ELSE [W EXCEPT !.bpy.images[images_get(W.bpy.images, img_name)] =
             scale_image(@, W.self.props.image_width_prop, W.self.props.image_height_prop)]

\* lines 374-375
normalize_image(W, img_name, pass_config) ==
    [W EXCEPT !.bpy.images[images_get(W.bpy.images, img_name)] =
        [@ EXCEPT !.alpha_mode = IF pass_config.use_alpha THEN "STRAIGHT" ELSE "NONE",
                  !.is_data = ~pass_config.is_color]]

\* lines 346-375: afterwards the image of the pass is the image named img_name
resolve_image(W, baking_pass) ==
    Then(Then(Then(W,
        LAMBDA v : rename_unusable(v, get_image_name(v.self.props, baking_pass),
                                   BakingPassConfiguration(baking_pass))),
        LAMBDA v : create_or_scale(v, get_image_name(v.self.props, baking_pass),
                                   BakingPassConfiguration(baking_pass))),
        LAMBDA v : normalize_image(v, get_image_name(v.self.props, baking_pass),
                                   BakingPassConfiguration(baking_pass)))

\* mat_nodes.new("ShaderNodeTexImage") with the image set, selected and active
new_image_node(W, node) ==
    [with_node_tree(W, [node_tree_of(W) EXCEPT !.nodes  = @ \cup {node},
                                               !.serial = @ + 1,
                                               !.active = node.id])
        EXCEPT !.self._current_image_node = node]

\* lines 377-382
create_image_node(W, img_name) ==
    new_image_node(W, [id    |-> node_tree_of(W).serial + 1,
                       image |-> images_get(W.bpy.images, img_name)])

\* bpy.ops.object.bake("INVOKE_DEFAULT", type=pass_str, ...): fire and forget;
\* the host flags the job as running some time later
object_bake(W, pass_str, baking_pass) ==
    [W EXCEPT !.bpy.jobs = Append(@,
        [type     |-> pass_str,
         pass     |-> baking_pass,
         node     |-> W.self._current_image_node.id,
         uv_layer |-> W.self.props.uv_map_prop,
         margin   |-> W.self.props.uv_seam_margin_prop,
         status   |-> "pending"])]

\* lines 392-405
start_baking(W, baking_pass) ==
    object_bake([W EXCEPT !.self._running_pass = baking_pass],
                IF baking_pass = "METALLIC"
                THEN BakingPassConfiguration("ROUGHNESS").type
                ELSE BakingPassConfiguration(baking_pass).type,
                baking_pass)

\* the metallic pass started without the swap of the two inputs
bake_metallic_without_swap(W) ==
    IF get_principled_bsdf_node(node_tree_of(W)) = 0
    THEN report(W, "Cannot bake metallic pass. Could not find Principled BSDF Node.")
    ELSE start_baking(W, "METALLIC")

\* lines 385-390: without a principal node the pass is given up after the node was added
bake_metallic(W) ==
    IF get_principled_bsdf_node(node_tree_of(W)) = 0
    THEN report(W, "Cannot bake metallic pass. Could not find Principled BSDF Node.")
    ELSE start_baking(switch_in_tree(W), "METALLIC")

\* lines 384-405
bake_prepared(W, baking_pass) ==
    IF baking_pass = "METALLIC"
    THEN bake_metallic(bsdf_warning(W, node_tree_of(W)))
    ELSE start_baking(W, baking_pass)

bake_image_pass(W, baking_pass) ==
    Then(Then(Then(W,
        LAMBDA v : resolve_image(v, baking_pass)),
        LAMBDA v : create_image_node(v, get_image_name(v.self.props, baking_pass))),
        LAMBDA v : bake_prepared(v, baking_pass))

\* the tick that goes on running when the queue is empty
pop_and_bake_never_finished(W) ==
    IF W.bpy.raised THEN [W |-> W, result |-> "ERROR"] ELSE
    IF Len(W.self._pass_queue) = 0
    THEN [W |-> W, result |-> "RUNNING_MODAL"]
    ELSE [W |-> bake_image_pass(
                    [W EXCEPT !.self._pass_queue = SubSeq(@, 1, Len(@) - 1)],
                    W.self._pass_queue[Len(W.self._pass_queue)]),
          result |-> "RUNNING_MODAL"]

\* lines 324-329, after the cleanup; the pair of the new W and the handler's result
pop_and_bake(W) ==
    IF W.bpy.raised THEN [W |-> W, result |-> "ERROR"] ELSE
    IF Len(W.self._pass_queue) = 0
    THEN [W |-> W, result |-> "FINISHED"]
    ELSE [W |-> bake_image_pass(
                    [W EXCEPT !.self._pass_queue = SubSeq(@, 1, Len(@) - 1)],
                    W.self._pass_queue[Len(W.self._pass_queue)]),
          result |-> "RUNNING_MODAL"]

\* the tick that does not ask whether a bake job is running
bake_next_pass_without_waiting(W) == pop_and_bake(cleanup_after_bake(W))

bake_next_pass(W) ==
    IF is_job_running(W.bpy)
    THEN [W |-> W, result |-> "RUNNING_MODAL"]
    ELSE Then(Then(W, cleanup_after_bake), pop_and_bake)

\* the progress string of modal: the format and the values formatted into it
status_txt(W) ==
    [text        |-> "Baking ({}/{}): {} | Press END to cancel baking after current pass.",
     pass_number |-> W.self._num_passes - Len(W.self._pass_queue),
     num_passes  |-> W.self._num_passes,
     image       |-> W.bpy.images[W.self._current_image_node.image].name]

\* lines 289-297, on the pair bake_next_pass returned
publish_status(r) ==
    IF r.W.bpy.raised THEN r ELSE
    IF r.W.self._current_image_node # None
    THEN [r EXCEPT !.W.bpy.status_text = status_txt(r.W)]
    ELSE r

\* lines 286-300 of modal: the event is dispatched
modal_event(W, event) ==
    IF event = "TIMER"
    THEN Then(Then(W, bake_next_pass), publish_status)
    ELSE IF event = "ESC" \/ event = "END"
         THEN [W |-> report(W, "Baking was cancelled."), result |-> "CANCELLED"]
         ELSE [W |-> W, result |-> "PASS_THROUGH"]

\* lines 303-304
remove_timer(W) ==
    IF W.self._timer # None
    THEN [W EXCEPT !.bpy.timers = @ \ {W.self._timer}]
    ELSE W

\* line 306: bpy.context.workspace.status_text_set(text=None)
clear_status_text(W) ==
    IF W.bpy.raised THEN W ELSE [W EXCEPT !.bpy.status_text = None]

\* the end of a run that calls bake_next_pass where the cleanup belongs, and so
\* goes on with the queue
modal_end_continuing_queue(W, res) ==
    IF res = "FINISHED" \/ res = "CANCELLED"
    THEN clear_status_text(bake_next_pass(remove_timer(W)).W)
    ELSE W

\* the end of a run without the cleanup
modal_end_without_cleanup(W, res) ==
    IF res = "FINISHED" \/ res = "CANCELLED"
    THEN clear_status_text(remove_timer(W))
    ELSE W

\* the end of a run that leaves the status text as it is
modal_end_without_status_clear(W, res) ==
    IF res = "FINISHED" \/ res = "CANCELLED"
    THEN cleanup_after_bake(remove_timer(W))
    ELSE W

\* lines 302-306 of modal: the end of a run
modal_end(W, res) ==
    IF res = "FINISHED" \/ res = "CANCELLED"
    THEN clear_status_text(cleanup_after_bake(remove_timer(W)))
    ELSE W

\* what the host gets from a handler: its return value, or the error it raised
returned(W, res) == [W |-> W, result |-> IF W.bpy.raised THEN "ERROR" ELSE res]

modal_return(r) == returned(modal_end(r.W, r.result), r.result)

modal(W, event) == Then(Then(W, LAMBDA v : modal_event(v, event)), modal_return)

\* execute: the target is looked up by name, and storing the configuration on
\* None raises TypeError; the timer handle event_timer_add returns is not kept
execute(W) ==
    IF get_target_object(W) = None THEN returned(raise(W), "RUNNING_MODAL") ELSE
    [W |-> [W EXCEPT !.bpy.object.custom = properties_to_dict(W.self.props),
                     !.self._pass_queue = get_baking_passes(W.self.props),
                     !.self._num_passes = Len(get_baking_passes(W.self.props)),
                     !.self._running_pass = NoPass,
                     !.bpy.modal_handler = TRUE,
                     !.bpy.timers = @ \cup {[id |-> Cardinality(@) + 1]}],
     result |-> "RUNNING_MODAL"]

\* lines 276-283: with a valid target_object; for a target whose slot has no
\* material the copy raises when it reaches uv_map_prop
open_dialog(W, target_object) ==
    LET bound  == [W.self.props EXCEPT
                      !.target_object_prop =
                          IF target_object = None THEN "" ELSE target_object.name]
        stored == IF target_object # None /\ target_object.custom # None
                  THEN target_object.custom
                  ELSE DefaultProperties(target_object, W.bpy.bake_margin)
    IN  IF is_valid_target_obj_raises(target_object)
        THEN returned(raise([W EXCEPT !.self.props =
                                copy_properties_before_uv_map(bound, stored)]),
                      "RUNNING_MODAL")
        ELSE
    [W |-> [W EXCEPT !.self.props =
                copy_properties_from_dict(
                    \* uv_map_prop of a new operator reads as the first item of its enum
                    [bound EXCEPT
                        !.uv_map_prop = Head(get_target_object_uv_maps(target_object))],
                    stored,
                    target_object),
            !.bpy.dialog = TRUE],
     result |-> "RUNNING_MODAL"]

invoke(W) ==
    IF is_valid_target_obj_raises(W.bpy.object) THEN returned(raise(W), "CANCELLED")
    ELSE IF ~is_valid_target_obj(W.bpy.object)
    THEN [W |-> W, result |-> "CANCELLED"]
    ELSE open_dialog(W, W.bpy.object)

\* poll: whether the host offers the operator; the test of the active object
\* may raise as it does in invoke
poll(b) ==
    IF is_valid_target_obj_raises(b.object) THEN AttributeError
    ELSE is_valid_target_obj(b.object) /\ ~is_job_running(b)

(***************************************************************************)
(* Initial states                                                          *)
(***************************************************************************)
\* the most principal shading nodes a node tree holds
MaxBsdfNodes == 1

\* a material slot with a material that has the node tree nt (None: no nodes)
MaterialSlot(nt) == [material |-> [node_tree |-> nt]]

\* Metallic 0.2 and Roughness 0.6 (in tenths), each input linked or not
InitialBsdfNodes ==
    {[Metallic  |-> [default_value |-> 2, links |-> ml],
      Roughness |-> [default_value |-> 6, links |-> rl]] :
        ml \in {<<>>, <<"A.out">>}, rl \in {<<>>, <<"B.out">>}}

InitialNodeTrees ==
    {[nodes |-> {}, serial |-> 0, active |-> 0, bsdf_nodes |-> b] :
        b \in UNION {[1..n -> InitialBsdfNodes] : n \in 0..MaxBsdfNodes}}

ValidObjects ==
    {[name |-> "Cube", type |-> "MESH", select |-> TRUE,
      material_slots |-> <<MaterialSlot(nt)>>,
      uv_layers |-> <<"UVMap">>, custom |-> None] : nt \in InitialNodeTrees}

InvalidObjects ==
    LET nt == CHOOSE t \in InitialNodeTrees : t.bsdf_nodes # <<>>
        ok == [name |-> "Cube", type |-> "MESH", select |-> TRUE,
               material_slots |-> <<MaterialSlot(nt)>>,
               uv_layers |-> <<"UVMap">>, custom |-> None]
    IN  {None,
         [ok EXCEPT !.type = "CURVE"],
         [ok EXCEPT !.select = FALSE],
         [ok EXCEPT !.material_slots = <<>>],
         [ok EXCEPT !.material_slots = <<MaterialSlot(None)>>],
         \* a slot no material is assigned to
         [ok EXCEPT !.material_slots = <<[material |-> None]>>]}

RenderEngines == {"CYCLES", "BLENDER_EEVEE"}

\* bpy.context.scene.render.bake_margin of the scene the operator is created in
SceneBakeMargin == 16

\* the property values of an operator instance before invoke: __init__ assigns
\* every property but target_object_prop, which no code sets before invoke
NewOperatorProperties ==
    [k \in PropNames \cup {"target_object_prop"} |->
        IF k = "target_object_prop" THEN ""
        ELSE DefaultProperties(None, SceneBakeMargin)[k]]

\* an operator instance with the defaults of its class attributes
NewOperator ==
    [props |-> NewOperatorProperties,
     _pass_queue |-> <<>>, _num_passes |-> 0, _running_pass |-> NoPass,
     _timer |-> None, _current_image_node |-> None, reports |-> {}]

\* the host with obj as the active object, before the operator is called
Host(obj, engine) ==
    [object |-> obj, images |-> <<>>, persisted |-> <<>>, jobs |-> <<>>,
     timers |-> {}, status_text |-> None,
     render_engine |-> engine,
     \* the host state before the operator is called, kept for comparison
     before |-> [object |-> obj, render_engine |-> engine],
     \* the host cannot write image files; an error raised by a handler
     io_error |-> FALSE, raised |-> FALSE,
     bake_margin |-> SceneBakeMargin, dialog |-> FALSE, modal_handler |-> FALSE,
     \* the calls of the operator so far, and the instances of earlier calls whose
     \* modal handler is still registered
     invocations |-> 0, earlier |-> <<>>]

Init ==
    /\ self = NewOperator
    /\ \E obj \in ValidObjects \cup InvalidObjects, engine \in RenderEngines :
          bpy = Host(obj, engine)
    /\ result = "IDLE"
    /\ since_pass_start = "MIN_WAIT_ELAPSED"

(***************************************************************************)
(* Actions: the handlers the host calls, the bake job, time                *)
(***************************************************************************)
World == [self |-> self, bpy |-> bpy]

Terminal(res) == res \in {"FINISHED", "CANCELLED"}

\* the object passes the test of the target: the test ends and gives True
Qualifies(obj) == ~is_valid_target_obj_raises(obj) /\ is_valid_target_obj(obj)

\* bound of the exploration: the largest number of calls of the operator in
\* a behaviour. The host sets no limit to the calls
MaxInvocations == 2

\* the host before a handler of a new instance runs: an instance that still
\* has its modal handler stays with the host, a dialog still open is closed
ForNewInstance(b) ==
    [b EXCEPT !.invocations = @ + 1,
              !.earlier = IF b.modal_handler THEN Append(@, self) ELSE @,
              !.modal_handler = FALSE,
              !.dialog = FALSE,
              !.raised = FALSE]

\* the operator is called from the menu, each time on a new instance: the host
\* offers it while poll holds; invoke tests the active object again, and is
\* reached with an object that does not qualify only by a caller that leaves
\* poll out
Invoke ==
    /\ bpy.invocations < MaxInvocations
    /\ Qualifies(bpy.object) => poll(bpy)
    /\ \E r \in {invoke([self |-> NewOperator, bpy |-> ForNewInstance(bpy)])} :
          /\ self' = r.W.self
          /\ bpy' = r.W.bpy
          /\ result' = IF r.result \in {"CANCELLED", "ERROR"} THEN r.result ELSE "DIALOG"
    /\ UNCHANGED since_pass_start

\* the user calls the operator once
InvokeOnce == bpy.invocations = 0 /\ Invoke

\* the user sets the pass toggles in the properties dialog
DialogEdit ==
    /\ bpy.dialog
    /\ \E d, a, r, m, n, e \in BOOLEAN :
          self' = [self EXCEPT !.props.is_diffuse_pass_prop = d,
                               !.props.is_alpha_pass_prop = a,
                               !.props.is_roughness_pass_prop = r,
                               !.props.is_metallic_pass_prop = m,
                               !.props.is_normal_pass_prop = n,
                               !.props.is_emit_pass_prop = e]
    /\ UNCHANGED <<bpy, result, since_pass_start>>

\* the user confirms the dialog
Execute ==
    /\ bpy.dialog
    /\ \E r \in {execute([World EXCEPT !.bpy.raised = FALSE])} :
          /\ self' = r.W.self
          /\ bpy' = [r.W.bpy EXCEPT !.dialog = FALSE]
          /\ result' = r.result
    /\ UNCHANGED since_pass_start

\* the host hands an event to the modal handler; a handler that returns
\* FINISHED or CANCELLED, or that raises an error, is removed
ModalStep(event) ==
    /\ bpy.modal_handler
    /\ \E r \in {modal([World EXCEPT !.bpy.raised = FALSE], event)} :
          /\ self' = r.W.self
          /\ bpy' = [r.W.bpy EXCEPT !.modal_handler = ~(Terminal(r.result) \/ r.result = "ERROR")]
          /\ result' = IF r.result = "PASS_THROUGH" THEN result ELSE r.result
          /\ since_pass_start' = IF Len(r.W.bpy.jobs) > Len(bpy.jobs)
                                 THEN "BELOW_MIN_WAIT" ELSE since_pass_start

TimerEvent == bpy.timers # {} /\ ModalStep("TIMER")

CancelEvent == \E key \in {"ESC", "END"} : ModalStep(key)

OtherEvent == ModalStep("MOUSEMOVE")

\* the host flags a started bake job as running
JobFlagged ==
    /\ \E i \in DOMAIN bpy.jobs :
          /\ bpy.jobs[i].status = "pending"
          /\ bpy' = [bpy EXCEPT !.jobs[i].status = "running"]
    /\ UNCHANGED <<self, result, since_pass_start>>

\* the bake job ends
JobFinished ==
    /\ \E i \in DOMAIN bpy.jobs :
          /\ bpy.jobs[i].status = "running"
          /\ bpy' = [bpy EXCEPT !.jobs[i].status = "finished"]
    /\ UNCHANGED <<self, result, since_pass_start>>

\* the minimum wait after the last engine invocation elapses
MinWaitElapses ==
    /\ since_pass_start = "BELOW_MIN_WAIT"
    /\ since_pass_start' = "MIN_WAIT_ELAPSED"
    /\ UNCHANGED <<self, bpy, result>>

Next ==
    \/ InvokeOnce
    \/ DialogEdit
    \/ Execute
    \/ TimerEvent
    \/ CancelEvent
    \/ OtherEvent
    \/ JobFlagged
    \/ JobFinished
    \/ MinWaitElapses

\* the run of one instance: the user calls the operator once, with any of the
\* objects and any selection of passes
Spec == Init /\ [][Next]_vars

\* the timer of execute keeps ticking, and a bake job the engine was invoked
\* for is flagged as running and ends
FairSpec ==
    /\ Spec
    /\ WF_vars(TimerEvent)
    /\ WF_vars(JobFlagged)
    /\ WF_vars(JobFinished)

(***************************************************************************)
(* The operator called again: the host offers the operator whenever poll   *)
(* holds, also while an instance of an earlier call has its modal handler  *)
(* registered, and between the passes of a run no job is flagged.  Each    *)
(* call creates a new instance; the instances share the host.              *)
(***************************************************************************)
\* the instances of earlier calls without the i-th
WithoutEarlier(earlier, i) ==
    [j \in 1..(Len(earlier) - 1) |-> IF j < i THEN earlier[j] ELSE earlier[j + 1]]

\* the host hands an event to the modal handler of an instance of an earlier call
EarlierModalStep(event) ==
    \E i \in DOMAIN bpy.earlier :
        \E r \in {modal([self |-> bpy.earlier[i],
                          bpy  |-> [bpy EXCEPT !.raised = FALSE]], event)} :
            /\ bpy' = [r.W.bpy EXCEPT !.earlier =
                          IF Terminal(r.result) \/ r.result = "ERROR"
                          THEN WithoutEarlier(@, i)
                          ELSE [@ EXCEPT ![i] = r.W.self]]
            /\ since_pass_start' = IF Len(r.W.bpy.jobs) > Len(bpy.jobs)
                                   THEN "BELOW_MIN_WAIT" ELSE since_pass_start
            /\ UNCHANGED <<self, result>>

\* a timer event is handed to every modal handler
EarlierTimerEvent == bpy.timers # {} /\ EarlierModalStep("TIMER")

\* a key goes to the handler registered last; CANCELLED ends the event there
EarlierCancelEvent ==
    /\ ~bpy.modal_handler
    /\ \E key \in {"ESC", "END"} : EarlierModalStep(key)

\* an event a handler passes through reaches the handlers registered before
EarlierOtherEvent == EarlierModalStep("MOUSEMOVE")

\* the operator called without its dialog (bpy.ops with EXEC_DEFAULT), offered
\* while poll holds: execute runs on a new instance, whose target is not set
ExecuteWithoutInvoke ==
    /\ bpy.invocations < MaxInvocations
    /\ Qualifies(bpy.object)
    /\ poll(bpy)
    /\ \E r \in {execute([self |-> NewOperator, bpy |-> ForNewInstance(bpy)])} :
          /\ self' = r.W.self
          /\ bpy' = r.W.bpy
          /\ result' = r.result
    /\ UNCHANGED since_pass_start

\* the pass selections of the user who calls the operator again
SelectionsCalledAgain ==
    {[is_diffuse_pass_prop |-> FALSE, is_alpha_pass_prop |-> FALSE,
      is_roughness_pass_prop |-> FALSE, is_metallic_pass_prop |-> TRUE,
      is_normal_pass_prop |-> FALSE, is_emit_pass_prop |-> FALSE],
     [is_diffuse_pass_prop |-> TRUE, is_alpha_pass_prop |-> FALSE,
      is_roughness_pass_prop |-> FALSE, is_metallic_pass_prop |-> FALSE,
      is_normal_pass_prop |-> TRUE, is_emit_pass_prop |-> FALSE]}

DialogEditCalledAgain ==
    /\ bpy.dialog
    /\ \E t \in SelectionsCalledAgain :
          self' = [self EXCEPT !.props =
                      [k \in DOMAIN @ |-> IF k \in DOMAIN t THEN t[k] ELSE @[k]]]
    /\ UNCHANGED <<bpy, result, since_pass_start>>

\* one target with a principal node whose Metallic input is linked
InitCalledAgain ==
    /\ Init
    /\ bpy.render_engine = "CYCLES"
    /\ Qualifies(bpy.object)
    /\ bpy.object.material_slots[1].material.node_tree.bsdf_nodes # <<>>
    /\ bpy.object.material_slots[1].material.node_tree.bsdf_nodes[1].Metallic.links # <<>>
    /\ bpy.object.material_slots[1].material.node_tree.bsdf_nodes[1].Roughness.links = <<>>

NextCalledAgain ==
    \/ Invoke
    \/ ExecuteWithoutInvoke
    \/ DialogEditCalledAgain
    \/ Execute
    \/ TimerEvent
    \/ CancelEvent
    \/ OtherEvent
    \/ EarlierTimerEvent
    \/ EarlierCancelEvent
    \/ EarlierOtherEvent
    \/ JobFlagged
    \/ JobFinished
    \/ MinWaitElapses

SpecCalledAgain == InitCalledAgain /\ [][NextCalledAgain]_vars

(***************************************************************************)
(* Saving the result images to files: the user ticks "save to file" in the *)
(* dialog, and the host may become unable to write the files.              *)
(***************************************************************************)
InitSaveToFile ==
    /\ Init
    /\ bpy.render_engine = "CYCLES"
    /\ Qualifies(bpy.object)
    /\ bpy.object.material_slots[1].material.node_tree.bsdf_nodes # <<>>
    /\ bpy.object.material_slots[1].material.node_tree.bsdf_nodes[1].Metallic.links # <<>>
    /\ bpy.object.material_slots[1].material.node_tree.bsdf_nodes[1].Roughness.links = <<>>

\* the directories the user may type: with the trailing "/", without it and
\* with a character that is replaced, with a letter outside ASCII
\* ("//t\u00ebx/"), and with a letter and a sign outside ASCII ("//\u0416\u00a7/")
ImagePaths ==
    {CodePoints("//"), CodePoints("//my dir"),
     CodePoints("//t") \o <<235>> \o CodePoints("x/"),
     CodePoints("//") \o <<1046, 167>> \o CodePoints("/")}

\* the user sets the "save to file" option and the directory in the properties dialog
DialogEditSaveToFile ==
    /\ bpy.dialog
    /\ \E f \in BOOLEAN, d \in ImagePaths :
          self' = [self EXCEPT !.props.is_image_save_to_file_prop = f,
                               !.props.image_path_prop = d]
    /\ UNCHANGED <<bpy, result, since_pass_start>>

\* from now on Image.save fails: the directory is missing or read-only
SaveBecomesImpossible ==
    /\ ~bpy.io_error
    /\ bpy' = [bpy EXCEPT !.io_error = TRUE]
    /\ UNCHANGED <<self, result, since_pass_start>>

\* the host reads the reloaded images again from their files, as img.save
\* wrote them; until it does, or with files it cannot read, they have no data
ImageLoaded ==
    /\ \E i \in DOMAIN bpy.images :
          ~bpy.images[i].has_data /\ bpy.images[i].filepath # <<>>
    /\ bpy' = [bpy EXCEPT !.images =
                  [i \in DOMAIN @ |->
                      IF ~@[i].has_data /\ @[i].filepath # <<>>
                      THEN [@[i] EXCEPT !.has_data = TRUE] ELSE @[i]]]
    /\ UNCHANGED <<self, result, since_pass_start>>

NextSaveToFile ==
    \/ InvokeOnce
    \/ DialogEdit
    \/ DialogEditSaveToFile
    \/ Execute
    \/ TimerEvent
    \/ CancelEvent
    \/ OtherEvent
    \/ JobFlagged
    \/ JobFinished
    \/ MinWaitElapses
    \/ SaveBecomesImpossible
    \/ ImageLoaded

SpecSaveToFile == InitSaveToFile /\ [][NextSaveToFile]_vars

(***************************************************************************)
(* The swap of Metallic and Roughness on its own: every principal node of  *)
(* a bounded set is swapped as the METALLIC pass does it, and swapped back *)
(* as the cleanup does it.                                                 *)
(***************************************************************************)
\* the largest default_value of an input, in tenths
MaxSocketValue == 3

\* the outputs of other nodes an input can be linked from
UpstreamSockets == {"A.out", "B.out"}

\* an input socket takes one link at most
SocketStates ==
    {[default_value |-> v, links |-> l] :
        v \in 0..MaxSocketValue, l \in {<<>>} \cup {<<u>> : u \in UpstreamSockets}}

InitSwitch ==
    /\ self = [NewOperator EXCEPT !.props.target_object_prop = "Cube"]
    /\ \E m, r \in SocketStates :
          bpy = Host([name |-> "Cube", type |-> "MESH", select |-> TRUE,
                      material_slots |-> <<MaterialSlot(
                          [nodes |-> {}, serial |-> 0, active |-> 0,
                           bsdf_nodes |-> <<[Metallic |-> m, Roughness |-> r]>>])>>,
                      uv_layers |-> <<"UVMap">>, custom |-> None], "CYCLES")
    /\ result = "IDLE"
    /\ since_pass_start = "MIN_WAIT_ELAPSED"

\* lines 384-392 of bake_image_pass: the swap, and the pass recorded as running
SwitchForMetallic ==
    /\ result = "IDLE"
    /\ \E W \in {switch_in_tree(World)} :
          /\ self' = [W.self EXCEPT !._running_pass = "METALLIC"]
          /\ bpy' = W.bpy
    /\ result' = "SWITCHED"
    /\ UNCHANGED since_pass_start

\* lines 336-341 of cleanup_after_bake
RevertAfterMetallic ==
    /\ result = "SWITCHED"
    /\ \E W \in {clear_running_pass(cleanup_metallic(World))} :
          /\ self' = W.self
          /\ bpy' = W.bpy
    /\ result' = "REVERTED"
    /\ UNCHANGED since_pass_start

NextSwitch == SwitchForMetallic \/ RevertAfterMetallic

SpecSwitch == InitSwitch /\ [][NextSwitch]_vars

(***************************************************************************)
(* A target object with two material slots                                 *)
(***************************************************************************)
InitSeveralMaterials ==
    /\ self = NewOperator
    /\ \E nt \in {t \in InitialNodeTrees : t.bsdf_nodes # <<>>} :
          bpy = Host([name |-> "Cube", type |-> "MESH", select |-> TRUE,
                      material_slots |-> <<MaterialSlot(nt), MaterialSlot(nt)>>,
                      uv_layers |-> <<"UVMap">>, custom |-> None], "CYCLES")
    /\ result = "IDLE"
    /\ since_pass_start = "MIN_WAIT_ELAPSED"

SpecSeveralMaterials == InitSeveralMaterials /\ [][Next]_vars

(***************************************************************************)
(* The configuration stored on the target object and read back: an         *)
(* operator with any valid configuration stores it as execute does, the    *)
(* object may lose UV maps and the stored map may lose a key, and a new    *)
(* operator reads the map as invoke does.                                  *)
(***************************************************************************)
PropertyTargets ==
    {[name |-> "Cube", type |-> "MESH", select |-> TRUE,
      material_slots |-> <<MaterialSlot(nt)>>,
      uv_layers |-> uv, custom |-> None] :
        nt \in {t \in InitialNodeTrees : t.bsdf_nodes = <<>>},
        uv \in {<<"UVMap">>, <<"UVMap", "UVMap.001">>}}

\* the valid configurations for the target obj: the UV map is one of its UV maps
ValidConfigurations(obj) ==
    {[image_name_prop |-> n, is_image_save_to_file_prop |-> f, image_path_prop |-> d,
      image_width_prop |-> w, image_height_prop |-> h, uv_seam_margin_prop |-> m,
      uv_map_prop |-> uv, target_object_prop |-> obj.name,
      is_diffuse_pass_prop |-> t[1], is_alpha_pass_prop |-> t[2],
      is_roughness_pass_prop |-> t[3], is_metallic_pass_prop |-> t[4],
      is_normal_pass_prop |-> t[5], is_emit_pass_prop |-> t[6]] :
        n \in {"Cube", "Bake"}, f \in BOOLEAN, d \in {CodePoints("//"), CodePoints("//tex/")},
        w \in {1024, 2048}, h \in {1024, 512}, m \in {16, 0},
        uv \in Range(get_target_object_uv_maps(obj)),
        t \in [1..6 -> BOOLEAN]}

\* the keys a stored map may lack
AbsentKeys == {{}, {"image_width_prop"}, {"is_emit_pass_prop"}}

InitProperties ==
    /\ \E obj \in PropertyTargets :
          \E c \in ValidConfigurations(obj) :
              /\ self = [NewOperator EXCEPT !.props = c]
              \* the configuration and the object are kept for comparison
              /\ bpy = [Host(obj, "CYCLES") EXCEPT
                            !.before = [object |-> obj, render_engine |-> "CYCLES", props |-> c]]
    /\ result = "CONFIGURED"
    /\ since_pass_start = "MIN_WAIT_ELAPSED"

\* line 311 of execute: the configuration is stored on the target object
StoreProperties ==
    /\ result = "CONFIGURED"
    /\ bpy' = [bpy EXCEPT !.object.custom = properties_to_dict(self.props),
                          \* the map as it was stored, kept for comparison
                          !.before.object.custom = properties_to_dict(self.props)]
    /\ result' = "STORED"
    /\ UNCHANGED <<self, since_pass_start>>

\* the user removes a UV map of the target object
UvMapRemoved ==
    /\ result = "STORED"
    /\ Len(bpy.object.uv_layers) > 1
    /\ \E i \in DOMAIN bpy.object.uv_layers :
          bpy' = [bpy EXCEPT !.object.uv_layers =
                     SelectSeq(@, LAMBDA u : u # bpy.object.uv_layers[i])]
    /\ UNCHANGED <<self, result, since_pass_start>>

\* lines 272-281 of invoke on a new operator; the stored map may lack a key
LoadProperties ==
    /\ result = "STORED"
    /\ \E absent \in AbsentKeys :
          \E r \in {invoke([self |-> NewOperator,
                            bpy  |-> [bpy EXCEPT !.object.custom =
                                         [k \in DOMAIN @ \ absent |-> @[k]]]])} :
              /\ self' = r.W.self
              /\ bpy' = r.W.bpy
    /\ result' = "LOADED"
    /\ UNCHANGED since_pass_start

\* lines 140-141: the operator that read the map takes over every property of
\* another configuration, the one that was stored or a new one
CopyPropertiesFrom ==
    /\ result = "LOADED"
    /\ \E other \in {bpy.before.props, NewOperatorProperties} :
          self' = [self EXCEPT !.props =
                      copy_properties_from(@, other, get_target_object(World))]
    /\ result' = "COPIED"
    /\ UNCHANGED <<bpy, since_pass_start>>

NextProperties == StoreProperties \/ UvMapRemoved \/ LoadProperties \/ CopyPropertiesFrom

SpecProperties == InitProperties /\ [][NextProperties]_vars

(***************************************************************************)
(* The image of a pass resolved against an image the host already has: an  *)
(* operator configured for 1024 x 1024 images named "Cube-..." starts one  *)
(* pass while bpy.data.images holds no image or one image of any kind.     *)
(***************************************************************************)
ExistingImages ==
    {[name |-> "Cube-" \o lower(t), has_data |-> d, alpha_mode |-> a, type |-> y,
      size |-> z, is_data |-> FALSE, has_alpha |-> a # "NONE", packed |-> FALSE,
      filepath |-> <<>>] :
        t \in {"DIFFUSE", "ROUGHNESS", "METALLIC", "NORMAL", "EMIT"},
        d \in BOOLEAN, a \in {"NONE", "STRAIGHT", "PREMUL"},
        y \in {"IMAGE", "RENDER_RESULT"},
        z \in {<<1024, 1024>>, <<512, 512>>, <<1024, 512>>}}

InitResolver ==
    /\ self = [NewOperator EXCEPT !.props =
                   [k \in DOMAIN NewOperatorProperties |->
                       IF k = "target_object_prop" THEN "Cube"
                       ELSE IF k = "uv_map_prop" THEN "UVMap"
                       ELSE DefaultProperties([name |-> "Cube"], SceneBakeMargin)[k]]]
    /\ \E obj \in {o \in ValidObjects : o.material_slots[1].material.node_tree.bsdf_nodes # <<>>},
          existing \in {<<>>} \cup {<<i>> : i \in ExistingImages} :
          bpy = [Host(obj, "CYCLES") EXCEPT !.images = existing]
    /\ result = "CONFIGURED"
    /\ since_pass_start = "MIN_WAIT_ELAPSED"

\* bake_image_pass for one pass of the catalog
BakeImagePass ==
    /\ result = "CONFIGURED"
    /\ \E baking_pass \in Range(BakingPass) :
          \E W \in {bake_image_pass(World, baking_pass)} :
              /\ self' = W.self
              /\ bpy' = W.bpy
    /\ result' = "RUNNING_MODAL"
    /\ since_pass_start' = "BELOW_MIN_WAIT"

NextResolver == BakeImagePass

SpecResolver == InitResolver /\ [][NextResolver]_vars

(***************************************************************************)
(* Properties                                                              *)
(***************************************************************************)
\* execute has run: the configuration is stored on the target object
Executed == bpy.object # None /\ bpy.object.custom # None

CatalogIndex(p) == CHOOSE i \in DOMAIN BakingPass : BakingPass[i] = p

\* the passes the toggles of the configuration select
SelectedPasses(p) ==
    {x \in Range(BakingPass) :
        \/ x = "DIFFUSE" /\ p.is_diffuse_pass_prop /\ ~p.is_alpha_pass_prop
        \/ x = "DIFFUSE_WITH_ALPHA" /\ p.is_diffuse_pass_prop /\ p.is_alpha_pass_prop
        \/ x = "ROUGHNESS" /\ p.is_roughness_pass_prop
        \/ x = "METALLIC" /\ p.is_metallic_pass_prop
        \/ x = "NORMAL" /\ p.is_normal_pass_prop
        \/ x = "EMIT" /\ p.is_emit_pass_prop}

CurrentTree == bpy.object.material_slots[1].material.node_tree

TreeBefore == bpy.before.object.material_slots[1].material.node_tree

\* no temporary image node, and the inputs of the principal node as before the bake
GraphRestored ==
    /\ CurrentTree.nodes = {}
    /\ CurrentTree.bsdf_nodes = TreeBefore.bsdf_nodes

LastJob == bpy.jobs[Len(bpy.jobs)]

\* the bake jobs the sequencer started that have not finished yet
Outstanding(b) == {i \in DOMAIN b.jobs : b.jobs[i].status # "finished"}

\* C1: at most one bake job started by the sequencer is outstanding at any
\* instant, also when the host flags a job as running only some time after
\* the invocation.
C1_AtMostOneJobOutstanding == Cardinality(Outstanding(bpy)) <= 1

\* C2: a timer tick that arrives before the minimum wait since the start of
\* the current pass has elapsed does nothing and leaves the sequencer running,
\* even when no bake job is reported active.
C2_EarlyTickIsNoOp ==
    [][(TimerEvent /\ since_pass_start = "BELOW_MIN_WAIT")
          => (self' = self /\ bpy' = bpy /\ result' = "RUNNING_MODAL")]_vars

\* C3: when the uncancelled run reaches FINISHED the shader graph of the target
\* material is what it was before the start: no temporary image node, Metallic
\* and Roughness with their values and links.
C3_FinishedGraphRestored == result = "FINISHED" => GraphRestored

C3_Witness ==
    /\ result = "FINISHED"
    /\ \E i \in DOMAIN bpy.jobs : bpy.jobs[i].pass = "METALLIC"
    /\ Len(bpy.jobs) >= 2
    /\ TreeBefore.bsdf_nodes[1].Roughness.links # <<>>

\* C4: a cancel key delivered while the METALLIC pass is in flight ends the run
\* with CANCELLED, the Metallic/Roughness swap undone and the temporary image
\* node removed.
C4_CancelDuringMetallic ==
    [][(CancelEvent /\ self._running_pass = "METALLIC")
          => (result' = "CANCELLED" /\ GraphRestored')]_vars

C4_Witness ==
    /\ result = "CANCELLED"
    /\ bpy.jobs # <<>>
    /\ LastJob.pass = "METALLIC"
    /\ LastJob.status # "finished"
    /\ self._pass_queue # <<>>
    /\ TreeBefore.bsdf_nodes[1].Metallic.links # <<>>

\* C5: a cancel key in a running state ends the run with the per-pass cleanup
\* done, and from then on the engine is never invoked: the passes still in the
\* queue are never baked.
C5_NoBakeAfterCancel ==
    [][/\ CancelEvent =>
            /\ result' = "CANCELLED"
            /\ self'._current_image_node = None
            /\ self'._running_pass = NoPass
            /\ self'._pass_queue = self._pass_queue
            /\ Len(bpy'.jobs) = Len(bpy.jobs)
       /\ result = "CANCELLED" =>
            /\ result' = "CANCELLED"
            /\ self' = self
            /\ Len(bpy'.jobs) = Len(bpy.jobs)
            /\ bpy'.persisted = bpy.persisted
            /\ bpy'.object = bpy.object]_vars

C5_Witness ==
    /\ result = "CANCELLED"
    /\ self._pass_queue # <<>>
    /\ bpy.jobs # <<>>
    /\ \A i \in DOMAIN bpy.jobs : bpy.jobs[i].status = "finished"

\* the selected pass that comes last in the catalog
LastSelected(p) == CHOOSE x \in SelectedPasses(p) :
                       \A y \in SelectedPasses(p) : CatalogIndex(y) <= CatalogIndex(x)

\* C6 as stated: the engine is invoked for the selected passes in the reverse
\* of the catalog order: what was invoked so far are the selected passes that
\* come last in the catalog, latest first, the rest waits in the queue in
\* catalog order, and for every selection the first pass baked is the last
\* selected pass in catalog order.
C6_ReverseCatalogOrder ==
    Executed =>
        LET invoked == {bpy.jobs[i].pass : i \in DOMAIN bpy.jobs}
            queued  == Range(self._pass_queue)
        IN  /\ \A i, j \in DOMAIN bpy.jobs :
                  i < j => CatalogIndex(bpy.jobs[i].pass) > CatalogIndex(bpy.jobs[j].pass)
            /\ \A i, j \in DOMAIN self._pass_queue :
                  i < j => CatalogIndex(self._pass_queue[i]) < CatalogIndex(self._pass_queue[j])
            /\ \A q \in queued, x \in invoked : CatalogIndex(q) < CatalogIndex(x)
            /\ invoked \cup queued = SelectedPasses(self.props)
            /\ bpy.jobs # <<>> => bpy.jobs[1].pass = LastSelected(self.props)
            /\ result = "FINISHED" => queued = {}

\* the selected passes the engine is invoked for: all but a METALLIC pass on a
\* material without principal node
BakedPasses(p) ==
    SelectedPasses(p) \ (IF CurrentTree.bsdf_nodes = <<>> THEN {"METALLIC"} ELSE {})

\* C6, amended: the passes are taken from the queue in the reverse of the
\* catalog order, and the engine is invoked in that order for each of them but
\* a METALLIC pass on a material without principal node, which is taken from
\* the queue in its place and not baked: the first pass baked is the last
\* selected pass in catalog order that is not such a METALLIC pass.
C6_ReverseCatalogOrderOfBakedPasses ==
    Executed =>
        LET invoked == {bpy.jobs[i].pass : i \in DOMAIN bpy.jobs}
            queued  == Range(self._pass_queue)
            taken   == SelectedPasses(self.props) \ queued
        IN  /\ \A i, j \in DOMAIN bpy.jobs :
                  i < j => CatalogIndex(bpy.jobs[i].pass) > CatalogIndex(bpy.jobs[j].pass)
            /\ \A i, j \in DOMAIN self._pass_queue :
                  i < j => CatalogIndex(self._pass_queue[i]) < CatalogIndex(self._pass_queue[j])
            /\ \A q \in queued, x \in taken : CatalogIndex(q) < CatalogIndex(x)
            /\ queued \subseteq SelectedPasses(self.props)
            /\ invoked = taken \cap BakedPasses(self.props)
            /\ bpy.jobs # <<>> =>
                  /\ bpy.jobs[1].pass \in BakedPasses(self.props)
                  /\ \A y \in BakedPasses(self.props) :
                        CatalogIndex(y) <= CatalogIndex(bpy.jobs[1].pass)
            /\ result = "FINISHED" => queued = {}

\* ROUGHNESS is baked first, then DIFFUSE: METALLIC, the last selected pass, was
\* taken from the queue first and given up
C6_Witness ==
    /\ result = "FINISHED"
    /\ CurrentTree.bsdf_nodes = <<>>
    /\ get_baking_passes(self.props) = <<"DIFFUSE", "ROUGHNESS", "METALLIC">>
    /\ Len(bpy.jobs) = 2
    /\ bpy.jobs[1].pass = "ROUGHNESS"
    /\ bpy.jobs[2].pass = "DIFFUSE"

\* C7: starting a bake on an object that does not qualify (no object, not a
\* mesh, not selected, no material slot, a slot without material, a material
\* without node tree) yields CANCELLED and has no side effect: nothing is stored
\* on the object, no queue, no timer, no dialog, no modal handler, no image, no
\* job, the object as it was.
C7_InvalidTargetCancelled ==
    ~Qualifies(bpy.object) =>
        /\ result \in {"IDLE", "CANCELLED"}
        /\ bpy.object = bpy.before.object
        /\ self._pass_queue = <<>>
        /\ self._num_passes = 0
        /\ bpy.timers = {}
        /\ ~bpy.dialog
        /\ ~bpy.modal_handler
        /\ bpy.images = <<>>
        /\ bpy.jobs = <<>>
        /\ bpy.persisted = <<>>

\* C8: in a terminal state no timer the run registered is still registered.
C8_TimerRemovedAtEnd == Terminal(result) => bpy.timers = {}

\* C9: the start switches the render engine of the host to the path-traced
\* engine, and in every terminal state the engine is the one that was active
\* before the start.
C9_EngineSwitchedAndRestored ==
    /\ result = "RUNNING_MODAL" => bpy.render_engine = "CYCLES"
    /\ Terminal(result) => bpy.render_engine = bpy.before.render_engine

\* C10: in every terminal state the status text is cleared.
C10_StatusClearedAtEnd == Terminal(result) => bpy.status_text = None

C10_Witness ==
    /\ result = "FINISHED"
    /\ Len(bpy.jobs) >= 2
    /\ bpy.status_text = None

\* the pass types the bake engine is invoked with
EngineTypes == {"DIFFUSE", "ROUGHNESS", "NORMAL", "EMIT"}

\* C11: every invocation of the engine has a type among DIFFUSE, ROUGHNESS,
\* NORMAL and EMIT; the METALLIC pass is invoked as a ROUGHNESS bake, and at
\* the moment of that invocation the Metallic and Roughness inputs of the
\* principal node are the swap of what they were before the run.
C11_MetallicBakedAsRoughness ==
    [][Len(bpy'.jobs) > Len(bpy.jobs) =>
          /\ Len(bpy'.jobs) = Len(bpy.jobs) + 1
          /\ LastJob'.type \in EngineTypes
          /\ LastJob'.pass = "METALLIC" =>
                /\ LastJob'.type = "ROUGHNESS"
                /\ CurrentTree'.bsdf_nodes # <<>>
                /\ CurrentTree'.bsdf_nodes[1] =
                      switch_metallic_and_roughness(TreeBefore.bsdf_nodes[1])
                /\ CurrentTree'.bsdf_nodes[1] # TreeBefore.bsdf_nodes[1]]_vars

C11_Witness ==
    /\ self._running_pass = "METALLIC"
    /\ bpy.jobs # <<>>
    /\ LastJob.pass = "METALLIC"
    /\ LastJob.type = "ROUGHNESS"
    /\ LastJob.status = "pending"
    /\ CurrentTree.bsdf_nodes[1].Metallic = TreeBefore.bsdf_nodes[1].Roughness
    /\ TreeBefore.bsdf_nodes[1].Roughness.links # <<>>

\* an image that has data is saved at the next cleanup, to a file that cannot be written
SaveWillFail ==
    /\ bpy.io_error
    /\ self.props.is_image_save_to_file_prop
    /\ self._current_image_node # None
    /\ bpy.images[self._current_image_node.image].has_data

\* C12: when saving the result image fails during the cleanup of a pass, the
\* error does not leave the handler: it is reported, the temporary image node
\* is removed, the swap of a METALLIC pass is undone, and the handler returns
\* RUNNING_MODAL, FINISHED or CANCELLED as it would have.
C12_SaveFailureCaught ==
    [][(SaveWillFail /\ ((TimerEvent /\ ~is_job_running(bpy)) \/ CancelEvent)) =>
          /\ result' \in {"RUNNING_MODAL", "FINISHED", "CANCELLED"}
          /\ ~bpy'.raised
          /\ self'.reports # self.reports
          /\ self._current_image_node \notin CurrentTree'.nodes
          /\ self._running_pass = "METALLIC" =>
                CurrentTree'.bsdf_nodes = TreeBefore.bsdf_nodes]_vars

\* the next tick starts the METALLIC pass on a material without a principal node
MetallicWithoutPrincipalNode ==
    /\ bpy.modal_handler
    /\ ~is_job_running(bpy)
    /\ self._pass_queue # <<>>
    /\ self._pass_queue[Len(self._pass_queue)] = "METALLIC"
    /\ CurrentTree.bsdf_nodes = <<>>

\* C13: a METALLIC pass started on a material without a principal node is given
\* up with a warning and leaves nothing behind: no temporary image node in the
\* node tree, no running pass and no node recorded, no invocation of the
\* engine; the sequencer keeps running with the rest of the queue.
C13_MetallicAbandonedCleanly ==
    [][(MetallicWithoutPrincipalNode /\ TimerEvent) =>
          /\ result' = "RUNNING_MODAL"
          /\ "Cannot bake metallic pass. Could not find Principled BSDF Node." \in self'.reports
          /\ Len(bpy'.jobs) = Len(bpy.jobs)
          /\ self'._running_pass = NoPass
          /\ self'._pass_queue = SubSeq(self._pass_queue, 1, Len(self._pass_queue) - 1)
          /\ self'._current_image_node = None
          /\ CurrentTree'.nodes = {}]_vars

\* C14: whatever the values and the links of Metallic and Roughness are, the
\* swap of the METALLIC pass followed by the revert of the cleanup gives back
\* the principal node with the values and the links it had: the swap applied
\* twice is the identity.
C14_SwitchTwiceIsIdentity ==
    /\ result = "REVERTED" =>
          /\ CurrentTree.bsdf_nodes = TreeBefore.bsdf_nodes
          /\ self._running_pass = NoPass
    /\ \A n \in Range(CurrentTree.bsdf_nodes) :
          switch_metallic_and_roughness(switch_metallic_and_roughness(n)) = n

C14_Witness ==
    /\ result = "REVERTED"
    /\ CurrentTree.bsdf_nodes[1].Metallic.links = <<"A.out">>
    /\ CurrentTree.bsdf_nodes[1].Roughness.links = <<>>
    /\ CurrentTree.bsdf_nodes[1].Metallic.default_value = 1
    /\ CurrentTree.bsdf_nodes[1].Roughness.default_value = 3

\* C15: while the METALLIC pass is in flight Metallic has the value and the
\* links Roughness had before the pass, and Roughness has the value and the
\* links Metallic had.
C15_InputsExchangedInFlight ==
    result = "SWITCHED" =>
        /\ self._running_pass = "METALLIC"
        /\ CurrentTree.bsdf_nodes[1].Metallic = TreeBefore.bsdf_nodes[1].Roughness
        /\ CurrentTree.bsdf_nodes[1].Roughness = TreeBefore.bsdf_nodes[1].Metallic

C15_Witness ==
    /\ result = "SWITCHED"
    /\ TreeBefore.bsdf_nodes[1].Metallic = [default_value |-> 0, links |-> <<"A.out">>]
    /\ TreeBefore.bsdf_nodes[1].Roughness = [default_value |-> 2, links |-> <<>>]
    /\ CurrentTree.bsdf_nodes[1].Metallic = [default_value |-> 2, links |-> <<>>]
    /\ CurrentTree.bsdf_nodes[1].Roughness = [default_value |-> 0, links |-> <<"A.out">>]

\* the selected passes in the order the sequencer takes them from the queue
PopOrder(p) ==
    [i \in 1..Len(get_baking_passes(p)) |->
        get_baking_passes(p)[Len(get_baking_passes(p)) + 1 - i]]

\* the passes taken from the queue so far
Popped == SubSeq(PopOrder(self.props), 1, self._num_passes - Len(self._pass_queue))

\* the passes whose cleanup has run: all taken from the queue but the current one
CleanedUp ==
    SubSeq(Popped, 1, Len(Popped) - (IF self._current_image_node # None THEN 1 ELSE 0))

\* one image per cleaned-up pass was persisted, in the order of the passes,
\* under the name image_name_prop + "-" + lower(type of the pass)
PersistedPerPass ==
    /\ Len(bpy.persisted) = Len(CleanedUp)
    /\ \A i \in DOMAIN CleanedUp :
          bpy.persisted[i] =
              self.props.image_name_prop \o "-" \o lower(BakingPassConfiguration(CleanedUp[i]).type)

\* C16 as stated: in a run that is not cancelled every pass taken from the
\* queue was started exactly once, one image per finished pass is persisted
\* before the next pass starts, and at FINISHED every selected pass was started
\* and as many images are persisted as passes are selected.
C16_EveryPassStartedAndPersisted ==
    (Executed /\ result \in {"RUNNING_MODAL", "FINISHED"}) =>
        /\ PersistedPerPass
        /\ Len(bpy.jobs) = Len(Popped)
        /\ \A i \in DOMAIN bpy.jobs : bpy.jobs[i].pass = Popped[i]
        /\ result = "FINISHED" =>
              /\ Len(bpy.jobs) = Cardinality(SelectedPasses(self.props))
              /\ Len(bpy.persisted) = Cardinality(SelectedPasses(self.props))

\* the passes taken from the queue and started: a METALLIC pass on a material
\* without a principal node is given up
Started == SelectSeq(Popped, LAMBDA x : ~(x = "METALLIC" /\ CurrentTree.bsdf_nodes = <<>>))

\* C16, amended: in a run that is not cancelled every pass taken from the
\* queue, except a METALLIC pass given up for want of a principal node, was
\* started exactly once; one image per pass taken from the queue is persisted
\* before the next pass starts, named base name + "-" + lowercase type; at
\* FINISHED as many images are persisted as passes are selected.
C16_StartedUnlessAbandonedAndPersisted ==
    (Executed /\ result \in {"RUNNING_MODAL", "FINISHED"}) =>
        /\ PersistedPerPass
        /\ Len(bpy.jobs) = Len(Started)
        /\ \A i \in DOMAIN bpy.jobs : bpy.jobs[i].pass = Started[i]
        /\ result = "FINISHED" =>
              /\ Range(Popped) = SelectedPasses(self.props)
              /\ Len(bpy.persisted) = Cardinality(SelectedPasses(self.props))

C16_Witness ==
    /\ result = "FINISHED"
    /\ bpy.persisted = <<"Cube-normal", "Cube-metallic", "Cube-diffuse">>
    /\ Len(bpy.jobs) = 3
    /\ bpy.jobs[2].type = "ROUGHNESS"

\* the node trees of all material slots of the active object
MaterialTrees(b) ==
    {b.object.material_slots[i].material.node_tree : i \in DOMAIN b.object.material_slots}

\* C17: when the engine is invoked for a pass, the node tree of every material
\* of the target object holds a temporary image node with the image of the
\* pass, and once the pass is cleaned up no node tree holds such a node.
C17_NodeInEveryMaterial ==
    [][/\ Len(bpy'.jobs) > Len(bpy.jobs) =>
            \A t \in MaterialTrees(bpy') :
                \E n \in t.nodes :
                    bpy'.images[n.image].name = get_image_name(self'.props, LastJob'.pass)
       /\ (bpy'.modal_handler /\ self'._current_image_node = None) =>
            \A t \in MaterialTrees(bpy') : t.nodes = {}]_vars

\* C18: whatever the six pass toggles are, the selected passes never hold both
\* DIFFUSE and DIFFUSE_WITH_ALPHA, and no two selected passes have the same
\* image name.
C18_NoSharedImageName ==
    /\ ~({"DIFFUSE", "DIFFUSE_WITH_ALPHA"} \subseteq Range(get_baking_passes(self.props)))
    /\ \A i, j \in DOMAIN get_baking_passes(self.props) :
          i # j => get_image_name(self.props, get_baking_passes(self.props)[i])
                     # get_image_name(self.props, get_baking_passes(self.props)[j])

C18_Witness ==
    /\ bpy.dialog
    /\ self.props.is_diffuse_pass_prop
    /\ self.props.is_alpha_pass_prop
    /\ get_baking_passes(self.props) =
          <<"DIFFUSE_WITH_ALPHA", "ROUGHNESS", "METALLIC", "NORMAL", "EMIT">>
    /\ get_image_name(self.props, "DIFFUSE_WITH_ALPHA") = "Cube-diffuse"

\* C19: a valid configuration stored on the target object with
\* properties_to_dict and read by a new operator for the same, unchanged
\* object with copy_properties_from_dict is read back equal in every field,
\* the UV map and the pass toggles included.
C19_StoredConfigurationReadBack ==
    (/\ result = "LOADED"
     /\ bpy.object.uv_layers = bpy.before.object.uv_layers
     /\ bpy.object.custom = bpy.before.object.custom) =>
        /\ self.props = bpy.before.props
        /\ \A k \in PropNames : self.props[k] = bpy.before.props[k]

C19_Witness ==
    /\ result = "LOADED"
    /\ bpy.object.custom = bpy.before.object.custom
    /\ self.props = bpy.before.props
    /\ self.props.uv_map_prop = "UVMap.001"
    /\ self.props.image_name_prop = "Bake"
    /\ self.props.is_image_save_to_file_prop
    /\ self.props.image_path_prop = CodePoints("//tex/")
    /\ self.props.image_width_prop = 2048
    /\ self.props.image_height_prop = 512
    /\ self.props.uv_seam_margin_prop = 0
    /\ get_baking_passes(self.props) = <<"DIFFUSE_WITH_ALPHA", "METALLIC", "EMIT">>

\* C20: when the UV map of the stored map is not among the UV maps the target
\* object has now, reading the map raises no error and leaves the UV map of the
\* new operator as it was (the first of the current UV maps), and every other
\* key of the map is still taken over.
C20_UnknownUvMapIgnored ==
    (/\ result = "LOADED"
     /\ "uv_map_prop" \in DOMAIN bpy.object.custom
     /\ bpy.object.custom.uv_map_prop \notin Range(bpy.object.uv_layers)) =>
        /\ ~bpy.raised
        /\ bpy.dialog
        /\ self.props.uv_map_prop = Head(get_target_object_uv_maps(bpy.object))
        /\ self.props.uv_map_prop # bpy.object.custom.uv_map_prop
        /\ \A k \in DOMAIN bpy.object.custom \ {"uv_map_prop"} :
              self.props[k] = bpy.object.custom[k]

C20_Witness ==
    /\ result = "LOADED"
    /\ bpy.object.custom.uv_map_prop = "UVMap.001"
    /\ bpy.object.uv_layers = <<"UVMap">>
    /\ self.props.uv_map_prop = "UVMap"
    /\ "image_width_prop" \notin DOMAIN bpy.object.custom
    /\ self.props.image_height_prop = 512
    /\ self.props.image_name_prop = "Bake"
    /\ self.props.is_metallic_pass_prop

\* the pass bake_image_pass was called for in the step, and its image name
PassOfStep == self'._running_pass

NameOfStep == get_image_name(self.props, PassOfStep)

\* the image the temporary node holds: the image handed to the bake
ImageOfNode(W) == W.bpy.images[W.self._current_image_node.image]

\* the alpha mode of an image matches the pass: it has alpha exactly when the pass needs it
AlphaMatches(img, pass_config) == (img.alpha_mode # "NONE") = pass_config.use_alpha

\* C21: an existing image of the name of the pass that has no data, whose
\* alpha mode does not match the pass in either direction, or that is not of
\* type IMAGE is kept with its data under a new name with a suffix, a warning
\* is reported, and a new image of the configured size is made under the name
\* of the pass.
C21_UnusableImageReplaced ==
    [][(/\ BakeImagePass
        /\ images_get(bpy.images, NameOfStep) # 0
        /\ \/ ~bpy.images[images_get(bpy.images, NameOfStep)].has_data
           \/ ~AlphaMatches(bpy.images[images_get(bpy.images, NameOfStep)],
                            BakingPassConfiguration(PassOfStep))
           \/ bpy.images[images_get(bpy.images, NameOfStep)].type # "IMAGE") =>
          /\ Len(bpy'.images) = Len(bpy.images) + 1
          /\ bpy'.images[1] = [bpy.images[1] EXCEPT !.name = NameOfStep \o "_old"]
          /\ "Image has invalid data. Renaming and creating a new image" \in self'.reports
          /\ self'._current_image_node.image = 2
          /\ bpy'.images[2].name = NameOfStep
          /\ bpy'.images[2].size =
                <<self.props.image_width_prop, self.props.image_height_prop>>]_vars

\* C22: a usable image of the name of the pass whose size is not the
\* configured one is the image handed to the bake, resized to the configured
\* width and height, and no image is made; whatever the host held, the image
\* handed to the bake has the name of the pass and the configured size.
C22_UsableImageResized ==
    [][BakeImagePass =>
          /\ ImageOfNode([self |-> self', bpy |-> bpy']).name = NameOfStep
          /\ ImageOfNode([self |-> self', bpy |-> bpy']).size =
                <<self.props.image_width_prop, self.props.image_height_prop>>
          /\ (/\ images_get(bpy.images, NameOfStep) # 0
              /\ ~image_is_unusable(bpy.images[images_get(bpy.images, NameOfStep)],
                                    BakingPassConfiguration(PassOfStep))) =>
                /\ Len(bpy'.images) = Len(bpy.images)
                /\ self'._current_image_node.image = images_get(bpy.images, NameOfStep)]_vars

C22_Witness ==
    /\ result = "RUNNING_MODAL"
    /\ Len(bpy.images) = 1
    /\ self._current_image_node.image = 1
    /\ bpy.images[1].name = "Cube-normal"
    /\ bpy.images[1].size = <<1024, 1024>>
    /\ bpy.images[1].packed
    /\ self._running_pass = "NORMAL"

\* C23: the cleanup of a pass (image saved, temporary node removed, swap
\* undone) never runs while the bake job that writes into the node of the pass
\* is flagged as running, also when a cancel key is pressed during the job.
C23_NoCleanupWhileJobActive ==
    [][(/\ self._current_image_node # None
        /\ self._current_image_node \notin CurrentTree'.nodes) =>
          ~\E i \in DOMAIN bpy.jobs :
              /\ bpy.jobs[i].node = self._current_image_node.id
              /\ bpy.jobs[i].status = "running"]_vars

\* the principal nodes with the first one swapped, as during a METALLIC pass
SwappedBefore == [TreeBefore.bsdf_nodes EXCEPT ![1] = switch_metallic_and_roughness(@)]

\* C24: in every state between two events the node tree holds a temporary
\* image node exactly when the operator records one, and Metallic and
\* Roughness are swapped exactly when the recorded running pass is METALLIC;
\* with nothing recorded the node tree is the one before the bake.
C24_BookkeepingMatchesGraph ==
    Qualifies(bpy.object) =>
        /\ CurrentTree.nodes =
              IF self._current_image_node = None THEN {} ELSE {self._current_image_node}
        /\ CurrentTree.bsdf_nodes =
              IF self._running_pass = "METALLIC" THEN SwappedBefore ELSE TreeBefore.bsdf_nodes
        /\ self._running_pass = "METALLIC" => CurrentTree.bsdf_nodes # TreeBefore.bsdf_nodes
        /\ (self._current_image_node = None /\ self._running_pass = NoPass) => GraphRestored

C24_Witness ==
    /\ result = "RUNNING_MODAL"
    /\ self._running_pass = "METALLIC"
    /\ self._current_image_node # None
    /\ CurrentTree.nodes = {self._current_image_node}
    /\ CurrentTree.bsdf_nodes[1].Metallic = TreeBefore.bsdf_nodes[1].Roughness
    /\ Len(bpy.jobs) = 2
    /\ LastJob.status = "running"

\* C25: a timer tick while a bake job is flagged as running changes nothing of
\* the bake, for the instance of the last call and for an instance of an
\* earlier call that is still baking: queue, running pass, recorded node,
\* reports, node tree, images, saved images and jobs stay as they are, and the
\* handler returns RUNNING_MODAL.
C25_TickDuringJobIsNoOp ==
    [][((TimerEvent \/ EarlierTimerEvent) /\ is_job_running(bpy)) =>
          /\ self' = self
          /\ bpy'.earlier = bpy.earlier
          /\ bpy'.object = bpy.object
          /\ bpy'.images = bpy.images
          /\ bpy'.persisted = bpy.persisted
          /\ bpy'.jobs = bpy.jobs
          /\ ~bpy'.raised
          /\ result' = result
          /\ bpy.modal_handler => result' = "RUNNING_MODAL"]_vars

C25_Witness ==
    /\ result = "RUNNING_MODAL"
    /\ bpy.modal_handler
    /\ Len(bpy.earlier) = 1
    /\ is_job_running(bpy)
    /\ LastJob.status = "running"
    \* the job is the one of the earlier instance; the last instance waits for it
    /\ bpy.earlier[1]._current_image_node # None
    /\ self._current_image_node = None
    /\ self._pass_queue # <<>>
    /\ bpy.status_text # None
    /\ bpy.persisted = <<>>

\* C26: while a pass other than METALLIC is in flight the Metallic input of
\* the principal node has no link and the value zero.
C26_MetallicZeroedForOtherPasses ==
    (/\ Qualifies(bpy.object)
     /\ self._running_pass \notin {NoPass, "METALLIC"}
     /\ CurrentTree.bsdf_nodes # <<>>) =>
        CurrentTree.bsdf_nodes[1].Metallic = [default_value |-> 0, links |-> <<>>]

\* a pass other than METALLIC is in flight
OtherPassInFlight ==
    /\ Qualifies(bpy.object)
    /\ self._current_image_node # None
    /\ self._running_pass \notin {NoPass, "METALLIC"}

\* C27: the cleanup of a pass other than METALLIC removes the temporary image
\* node and leaves the principal nodes, with the values and the links of
\* Metallic and Roughness, as they are.
C27_RevertOfOtherPassKeepsSockets ==
    /\ [](OtherPassInFlight =>
            /\ node_tree_of(cleanup_after_bake(World)).nodes = {}
            /\ node_tree_of(cleanup_after_bake(World)).bsdf_nodes = CurrentTree.bsdf_nodes
            /\ cleanup_after_bake(World).self._current_image_node = None)
    /\ [][(OtherPassInFlight /\ CancelEvent) =>
             /\ CurrentTree'.nodes = {}
             /\ CurrentTree'.bsdf_nodes = CurrentTree.bsdf_nodes]_vars

C27_Witness ==
    /\ result = "CANCELLED"
    /\ bpy.jobs # <<>>
    /\ LastJob.pass = "NORMAL"
    /\ LastJob.status = "finished"
    /\ CurrentTree.nodes = {}
    /\ CurrentTree.bsdf_nodes # <<>>
    /\ CurrentTree.bsdf_nodes[1].Metallic.links # <<>>
    /\ CurrentTree.bsdf_nodes = TreeBefore.bsdf_nodes

\* C28: cleanup_after_bake run again right after itself changes nothing: no
\* image saved a second time, no node removed, no second swap; so at FINISHED,
\* where it ran in bake_next_pass and again in modal, and after a cancel, the
\* inputs of a finished METALLIC pass are not swapped again.
C28_CleanupIdempotent ==
    /\ cleanup_after_bake(cleanup_after_bake(World)) = cleanup_after_bake(World)
    /\ Terminal(result) =>
          /\ cleanup_after_bake(World) = World
          /\ Qualifies(bpy.object) => CurrentTree.bsdf_nodes = TreeBefore.bsdf_nodes

C28_Witness ==
    /\ result = "FINISHED"
    /\ Len(bpy.jobs) = 2
    /\ LastJob.pass = "METALLIC"
    /\ bpy.persisted = <<"Cube-normal", "Cube-metallic">>
    /\ CurrentTree.bsdf_nodes[1].Roughness.links # <<>>

\* C29: with timer ticks that keep arriving and bake jobs that end, a started
\* run reaches FINISHED or CANCELLED.  After execute the queue never grows, it
\* shrinks by exactly one in a step that invokes the engine, once at most per
\* step, so the engine is invoked at most once per selected pass; with no pass
\* selected nothing is invoked and the first tick returns FINISHED.
C29_RunTerminates ==
    /\ (result = "RUNNING_MODAL") ~> Terminal(result)
    /\ [](Executed => Len(bpy.jobs) + Len(self._pass_queue) <= self._num_passes)
    /\ [](Executed => self._num_passes = Cardinality(SelectedPasses(self.props)))
    /\ [][result = "RUNNING_MODAL" =>
            /\ Len(self'._pass_queue) <= Len(self._pass_queue)
            /\ Len(bpy'.jobs) <= Len(bpy.jobs) + 1
            /\ Len(bpy'.jobs) > Len(bpy.jobs) =>
                  Len(self'._pass_queue) = Len(self._pass_queue) - 1
            /\ (TimerEvent /\ self._num_passes = 0) =>
                  (result' = "FINISHED" /\ bpy'.jobs = <<>>)]_vars

C29_Witness ==
    /\ result = "FINISHED"
    /\ self._num_passes = 5
    /\ Len(bpy.jobs) = 5
    /\ self._pass_queue = <<>>
    /\ \A i \in DOMAIN bpy.jobs : bpy.jobs[i].status = "finished"

====
